---- MODULE Spec2Model ----
(***************************************************************************)
(* State-machine model of the JIT graph IR (Graph / Node / Value with      *)
(* use-lists), of the tracer of torch/csrc/jit/tracer.h and of the ToONNX  *)
(* pass of torch/csrc/jit/passes/onnx.cpp.                                 *)
(*                                                                         *)
(* A Value is the triple <<g, n, o>>: g the owning graph, n the producing  *)
(* node (0 for a graph input) and o the 1-based position among the         *)
(* producer's outputs (the code's offsets are 0-based).  A Use is the pair *)
(* <<user, offset>>: the consuming node and the 1-based input position.    *)
(* The use-list of a Value is stored with its producer: graphs[g].ins[o]   *)
(* for a graph input, nodes[n].outs[o] for a node output.                  *)
(***************************************************************************)
EXTENDS Integers, Sequences, FiniteSets, TLC

VARIABLES
    graphs,     \* graph id -> [ins, order, outputs, stage]
    nodes,      \* node id -> [live, g, kind, inputs, outs, handle, sym, loc,
                \* attrs]; ids are
                \* allocated in order and never reused, a destroyed node keeps
                \* its id with live = FALSE
    tstates,    \* TracingState id -> [graph, active, alive, inputs, buffer_map, hook]
    tvars,      \* Variable id -> [defined, ts]; ts is var.tracing_state()
    last,       \* the operation performed by the last step and its outcome
    hist,       \* TracingState id -> the operations applied to it so far
    steps       \* number of operations performed

vars == <<graphs, nodes, tstates, tvars, last, hist, steps>>

(***************************************************************************)
(* Bounds of the model.                                                    *)
(***************************************************************************)
MaxNodes == 2
MaxGraphInputs == 2
MaxNodeInputs == 2
MaxIRSteps == 4
MaxStates == 2
MaxSteps == 4

NULL == <<0, 0, 0>>

OutCounts == {1, 2}

(***************************************************************************)
(* Generic sequence helpers.                                               *)
(***************************************************************************)
SeqToSet(s) == {s[i] : i \in DOMAIN s}

RemoveAt(s, i) == SubSeq(s, 1, i - 1) \o SubSeq(s, i + 1, Len(s))

\* index of the first occurrence of x in s, 0 when absent
FirstIndex(s, x) ==
    IF \E i \in DOMAIN s : s[i] = x
    THEN CHOOSE i \in DOMAIN s : s[i] = x /\ \A j \in 1..(i - 1) : s[j] # x
    ELSE 0

RemoveFirst(s, x) == IF FirstIndex(s, x) = 0 THEN s ELSE RemoveAt(s, FirstIndex(s, x))

RECURSIVE Repeat(_, _)
Repeat(x, n) == IF n = 0 THEN <<>> ELSE Append(Repeat(x, n - 1), x)

\* the element of a one-element set
Only(S) == CHOOSE x \in S : TRUE

SeqsUpTo(S, n) == UNION {[1..k -> S] : k \in 0..n}

World == [graphs |-> graphs, nodes |-> nodes, tstates |-> tstates, tvars |-> tvars]

(***************************************************************************)
(* IR core: Graph / Node / Value.                                          *)
(***************************************************************************)
EmptyGraph == [ins |-> <<>>, order |-> <<>>, outputs |-> <<>>, stage |-> 0]

owningGraph(v) == v[1]

\* every Value that exists in world W
LiveNodes(W) == {n \in DOMAIN W.nodes : W.nodes[n].live}

ValuesOfGraph(W, g) ==
    {<<g, 0, o>> : o \in DOMAIN W.graphs[g].ins}
    \cup UNION {{<<g, n, o>> : o \in DOMAIN W.nodes[n].outs} :
                n \in {m \in LiveNodes(W) : W.nodes[m].g = g}}

AllValues(W) == UNION {ValuesOfGraph(W, g) : g \in DOMAIN W.graphs}

uses(W, v) ==
    IF v[2] = 0 THEN W.graphs[v[1]].ins[v[3]] ELSE W.nodes[v[2]].outs[v[3]]

SetUses(W, v, u) ==
    IF v[2] = 0
    THEN [W EXCEPT !.graphs[v[1]].ins[v[3]] = u]
    ELSE [W EXCEPT !.nodes[v[2]].outs[v[3]] = u]

\* Graph::addInput: append a new input Value; it is <<g, 0, Len(ins) + 1>>
Graph_addInput(W, g) == [W EXCEPT !.graphs[g].ins = Append(@, <<>>)]

\* Graph::create(kind, num_outputs): a node that is not yet in the node order
\* (its id is NextNode(W))
NextNode(W) == Len(W.nodes) + 1

Graph_create(W, g, kind, nOut) ==
    [W EXCEPT !.nodes = Append(@, [live |-> TRUE, g |-> g, kind |-> kind,
                                   inputs |-> <<>>, outs |-> Repeat(<<>>, nOut),
                                   handle |-> FALSE, sym |-> FALSE, loc |-> FALSE,
                                   attrs |-> <<>>])]

\* Node::setSourceLocation: loc tells whether the node carries source-location
\* metadata (getSourceLocation() is not null)
Node_setSourceLocation(W, n, loc) == [W EXCEPT !.nodes[n].loc = loc]

\* Graph::appendNode / Graph::insertNode at the default insert point (the end)
Graph_appendNode(W, n) == [W EXCEPT !.graphs[W.nodes[n].g].order = Append(@, n)]

Graph_registerOutput(W, g, v) == [W EXCEPT !.graphs[g].outputs = Append(@, v)]

\* Node::addOutput: append a new output Value; it is <<g, n, Len(outs) + 1>>
Node_addOutput(W, n) == [W EXCEPT !.nodes[n].outs = Append(@, <<>>)]

\* Node::addInput(v): push v on the input array and the use on v's use-list
Node_addInput(W, n, v) ==
    LET W1 == [W EXCEPT !.nodes[n].inputs = Append(@, v)]
    IN  SetUses(W1, v, Append(uses(W1, v), <<n, Len(W1.nodes[n].inputs)>>))

RECURSIVE AddInputs(_, _, _)
AddInputs(W, n, vs) ==
    IF vs = <<>> THEN W ELSE AddInputs(Node_addInput(W, n, Head(vs)), n, Tail(vs))

\* Node::replaceInput(i, v): drop the use of the old Value, record the new one
Node_replaceInput(W, n, i, v) ==
    LET old == W.nodes[n].inputs[i]
        W1  == SetUses(W, old, RemoveFirst(uses(W, old), <<n, i>>))
        W2  == [W1 EXCEPT !.nodes[n].inputs[i] = v]
    IN  SetUses(W2, v, Append(uses(W2, v), <<n, i>>))

\* Node::replaceInputWith(from, to): replaceInput at every position holding from
RECURSIVE ReplaceInputWithFrom(_, _, _, _, _)
ReplaceInputWithFrom(W, n, from, to, i) ==
    IF i > Len(W.nodes[n].inputs) THEN W
    ELSE ReplaceInputWithFrom(
             IF W.nodes[n].inputs[i] = from THEN Node_replaceInput(W, n, i, to) ELSE W,
             n, from, to, i + 1)

Node_replaceInputWith(W, n, from, to) == ReplaceInputWithFrom(W, n, from, to, 1)

\* Value::replaceAllUsesWith(newValue): every use of old is rewritten to newValue
\* and moved, in order, to the end of newValue's use-list.
RECURSIVE RewriteUses(_, _, _)
RewriteUses(W, us, new) ==
    IF us = <<>> THEN W
    ELSE RewriteUses([W EXCEPT !.nodes[Head(us)[1]].inputs[Head(us)[2]] = new],
                     Tail(us), new)

Value_replaceAllUsesWith_keepOld(W, old, new) ==
    LET us == uses(W, old)
        W1 == RewriteUses(W, us, new)
    IN  SetUses(W1, new, uses(W1, new) \o us)

Value_replaceAllUsesWith(W, old, new) ==
    LET us == uses(W, old)
        W1 == RewriteUses(W, us, new)
        W2 == SetUses(W1, new, uses(W1, new) \o us)
    IN  SetUses(W2, old, <<>>)

\* Node::removeInput(i): drop the use, shift the later inputs down by one and
\* renumber their uses.
RECURSIVE RenumberFrom(_, _, _)
RenumberFrom(W, n, j) ==
    IF j > Len(W.nodes[n].inputs) THEN W
    ELSE LET v  == W.nodes[n].inputs[j]
             us == uses(W, v)
             k  == FirstIndex(us, <<n, j>>)
         IN  RenumberFrom(IF k = 0 THEN W
                          ELSE SetUses(W, v, [us EXCEPT ![k] = <<n, j - 1>>]),
                          n, j + 1)

Node_removeInput(W, n, i) ==
    LET old == W.nodes[n].inputs[i]
        W1  == SetUses(W, old, RemoveFirst(uses(W, old), <<n, i>>))
        W2  == RenumberFrom(W1, n, i + 1)
    IN  [W2 EXCEPT !.nodes[n].inputs = RemoveAt(@, i)]

\* Node::removeAllInputs: drop every use, clear the input array
RECURSIVE DropInputsFrom(_, _, _)
DropInputsFrom(W, n, i) ==
    IF i > Len(W.nodes[n].inputs) THEN W
    ELSE LET v == W.nodes[n].inputs[i]
         IN  DropInputsFrom(SetUses(W, v, RemoveFirst(uses(W, v), <<n, i>>)), n, i + 1)

Node_removeAllInputs(W, n) ==
    [DropInputsFrom(W, n, 1) EXCEPT !.nodes[n].inputs = <<>>]

Node_hasUses(W, n) == \E o \in DOMAIN W.nodes[n].outs : W.nodes[n].outs[o] # <<>>

\* Node::destroy: refused while an output is in use; otherwise the inputs are
\* dropped, the node leaves the node order and is freed with its outputs.
CanDestroy_any(W, n) == TRUE

CanDestroy(W, n) == ~Node_hasUses(W, n)

Node_destroy(W, n) ==
    LET W1 == Node_removeAllInputs(W, n)
        g  == W1.nodes[n].g
        W2 == [W1 EXCEPT !.graphs[g].order = SelectSeq(@, LAMBDA m : m # n)]
    IN  [W2 EXCEPT !.nodes[n] = [@ EXCEPT !.live = FALSE, !.outs = <<>>]]

(***************************************************************************)
(* Symbolic builder: SymbolicVariable::create.                             *)
(***************************************************************************)
\* g = 0 stands for the null Graph* default: the graph of the first input
SymCreate_direct(W, kind, inputs, nOut, g) ==
    LET gg == IF g = 0 THEN owningGraph(inputs[1]) ELSE g
        n  == NextNode(W)
        W1 == Graph_appendNode(Graph_create(W, gg, kind, nOut), n)
    IN  [W1 EXCEPT !.nodes[n].inputs = inputs]

SymCreate(W, kind, inputs, nOut, g) ==
    LET gg == IF g = 0 THEN owningGraph(inputs[1]) ELSE g
        n  == NextNode(W)
        W1 == Graph_appendNode(Graph_create(W, gg, kind, nOut), n)
    IN  AddInputs(W1, n, inputs)

\* at::Scalar: a floating-point or an integral value; halves is twice the
\* value, so that 1.5 is [isFloatingPoint |-> TRUE, halves |-> 3] and the
\* integer 1 is [isFloatingPoint |-> FALSE, halves |-> 2]
Scalar_toDouble2(s) == s.halves

Scalar_toLong(s) == s.halves \div 2

\* SymbolicVariable::isConstInt(s, i)
isConstInt(s, i) ==
    IF s.isFloatingPoint THEN 2 * i = Scalar_toDouble2(s) ELSE i = Scalar_toLong(s)

\* Node::t_(name, tensor): the tensor attribute `name` of node n is set
Node_t_(W, n, name, tensor) ==
    [W EXCEPT !.nodes[n].attrs =
        SelectSeq(@, LAMBDA a : a[1] # name) \o <<<<name, tensor>>>>]

\* at::Scalar::toTensor: the single-element tensor holding s
Scalar_toTensor(s) == <<"tensor", s>>

SymMulScalar_asInput(W, x, rhs) ==
    [w |-> SymCreate(Graph_addInput(W, owningGraph(x)), "mul",
                     <<x, <<owningGraph(x), 0, Len(W.graphs[owningGraph(x)].ins) + 1>>>>, 1, 0),
     v |-> <<owningGraph(x), NextNode(W), 1>>]

\* SymbolicVariable::operator*(at::Scalar).  Returns [w, v].
SymMulScalar(W, x, rhs) ==
    IF isConstInt(rhs, 1) THEN [w |-> W, v |-> x]
    ELSE [w |-> Node_t_(SymCreate(W, "mul", <<x>>, 1, 0), NextNode(W), "other",
                        Scalar_toTensor(rhs)),
          v |-> <<owningGraph(x), NextNode(W), 1>>]

\* SymbolicVariable::operator+(at::Scalar).  Returns [w, v].
SymAddScalar(W, x, rhs) ==
    [w |-> Node_t_(Node_t_(SymCreate(W, "add", <<x>>, 1, 0), NextNode(W), "alpha",
                           Scalar_toTensor([isFloatingPoint |-> FALSE, halves |-> 2])),
                   NextNode(W), "other", Scalar_toTensor(rhs)),
     v |-> <<owningGraph(x), NextNode(W), 1>>]

(***************************************************************************)
(* Tracer (torch/csrc/jit/tracer.h).                                       *)
(*                                                                         *)
(* A Variable is an index of tvars.  tvars[v].ts is var.tracing_state(),   *)
(* the list of ValueTracingStateElem [state, trace]: state is the weak     *)
(* reference (a TracingState id; lock() succeeds while tstates[state]      *)
(* is alive) and trace the recorded Value (NULL when none).  The tensor    *)
(* held by Variable v (var.data()) is identified by v itself.              *)
(***************************************************************************)
Locks(W, e) == W.tstates[e.state].alive

\* detail::isElemActive
isElemActive(W, e) == Locks(W, e) /\ W.tstates[e.state].active

\* isTracingVar(const Variable&)
isTracingVar(W, v) ==
    /\ W.tvars[v].defined
    /\ \E k \in DOMAIN W.tvars[v].ts : isElemActive(W, W.tvars[v].ts[k])

\* isTracingVar(ArrayRef<Variable>)
isTracing(W, vs) == \E k \in DOMAIN vs : isTracingVar(W, vs[k])

\* detail::getValueState: walk the list from the front, erasing every elem
\* whose state no longer locks, until the elem of `state` is met; allocate a
\* new elem at the front when none is met and alloc is set.
\* Returns [w, idx]: idx is the position of the elem, 0 for nullptr.
MatchIndex_first(W, state, L) ==
    IF \E k \in DOMAIN L : Locks(W, L[k])
    THEN CHOOSE k \in DOMAIN L :
            /\ Locks(W, L[k])
            /\ \A j \in 1..(k - 1) : ~Locks(W, L[j])
    ELSE 0

MatchIndex(W, state, L) ==
    IF \E k \in DOMAIN L : L[k].state = state /\ Locks(W, L[k])
    THEN CHOOSE k \in DOMAIN L :
            /\ L[k].state = state /\ Locks(W, L[k])
            /\ \A j \in 1..(k - 1) : ~(L[j].state = state /\ Locks(W, L[j]))
    ELSE 0

getValueState_eraseFront(W, state, v, alloc) ==
    LET L == W.tvars[v].ts
        m == MatchIndex(W, state, L)
    IN  IF m # 0
        THEN [w |-> [W EXCEPT !.tvars[v].ts = SubSeq(L, m, Len(L))], idx |-> 1]
        ELSE IF alloc
        THEN [w |-> [W EXCEPT !.tvars[v].ts = <<[state |-> state, trace |-> NULL]>>], idx |-> 1]
        ELSE [w |-> [W EXCEPT !.tvars[v].ts = <<>>], idx |-> 0]

getValueState_alwaysAlloc(W, state, v, alloc) ==
    LET L    == W.tvars[v].ts
        kept == SelectSeq(L, LAMBDA e : Locks(W, e))
    IN  IF alloc
        THEN [w   |-> [W EXCEPT !.tvars[v].ts = <<[state |-> state, trace |-> NULL]>> \o kept],
              idx |-> 1]
        ELSE [w |-> [W EXCEPT !.tvars[v].ts = kept], idx |-> MatchIndex(W, state, kept)]

getValueState(W, state, v, alloc) ==
    LET L    == W.tvars[v].ts
        m    == MatchIndex(W, state, L)
        kept == SelectSeq(IF m = 0 THEN L ELSE SubSeq(L, 1, m - 1),
                          LAMBDA e : Locks(W, e))
    IN  IF m # 0
        THEN [w   |-> [W EXCEPT !.tvars[v].ts = kept \o SubSeq(L, m, Len(L))],
              idx |-> Len(kept) + 1]
        ELSE IF alloc
        THEN [w   |-> [W EXCEPT !.tvars[v].ts = <<[state |-> state, trace |-> NULL]>> \o kept],
              idx |-> 1]
        ELSE [w |-> [W EXCEPT !.tvars[v].ts = kept], idx |-> 0]

\* getTracingState: the loop over the variables and their elems with the
\* local `state`; -1 stands for a failed JIT_ASSERT(var_state == state).
RECURSIVE ScanElems(_, _, _)
ScanElems(W, L, state) ==
    IF L = <<>> \/ state = -1 THEN state
    ELSE IF ~isElemActive(W, Head(L)) THEN ScanElems(W, Tail(L), state)
    ELSE IF state = 0 THEN ScanElems(W, Tail(L), Head(L).state)
    ELSE IF Head(L).state = state THEN ScanElems(W, Tail(L), state)
    ELSE -1

RECURSIVE ScanVars(_, _, _)
ScanVars(W, vs, state) ==
    IF vs = <<>> \/ state = -1 THEN state
    ELSE IF ~W.tvars[Head(vs)].defined THEN ScanVars(W, Tail(vs), state)
    ELSE ScanVars(W, Tail(vs), ScanElems(W, W.tvars[Head(vs)].ts, state))

\* 0 when an assertion fails (two distinct active states, or none)
getTracingState_firstOnly(W, vs) ==
    LET act == {k \in DOMAIN vs : isTracingVar(W, vs[k])}
    IN  IF act = {} THEN 0
        ELSE LET v == vs[CHOOSE k \in act : \A j \in act : k <= j]
                 L == SelectSeq(W.tvars[v].ts, LAMBDA e : isElemActive(W, e))
             IN  L[1].state

getTracingState(W, vs) ==
    LET r == ScanVars(W, vs, 0) IN IF r = -1 THEN 0 ELSE r

\* setValueTrace (var is defined at every call)
setValueTrace(W, state, v, value) ==
    Only({[r.w EXCEPT !.tvars[v].ts[r.idx].trace = value] :
          r \in {getValueState(W, state, v, TRUE)}})

\* state->buffer_map: a list of <<tensor, Value>> with at most one pair a tensor
BufferFind(W, state, d) ==
    LET bm == W.tstates[state].buffer_map
    IN  IF \E k \in DOMAIN bm : bm[k][1] = d
        THEN bm[CHOOSE k \in DOMAIN bm : bm[k][1] = d][2]
        ELSE NULL

\* the Value <<g, n, 1>> of a node of `kind` appended to the graph of `state`
AppendLeaf(W, state, kind) ==
    [w |-> Graph_appendNode(Graph_create(W, W.tstates[state].graph, kind, 1), NextNode(W)),
     v |-> <<W.tstates[state].graph, NextNode(W), 1>>]

\* graph->appendNode(graph->createConstant(var.data())) and setValueTrace
EmbedConstant_noRecord(W, state, v) == AppendLeaf(W, state, "Constant")

EmbedConstant(W, state, v) ==
    Only({[w |-> setValueTrace(c.w, state, v, c.v), v |-> c.v] :
          c \in {AppendLeaf(W, state, "Constant")}})

\* getValueTrace.  Returns [w, v].
getValueTrace_noLookup(W, state, v) == EmbedConstant(W, state, v)

getValueTrace(W, state, v) ==
    IF ~W.tvars[v].defined THEN AppendLeaf(W, state, "Undefined")
    ELSE Only({
           IF r.w.tvars[v].ts[r.idx].trace # NULL
           THEN [w |-> r.w, v |-> r.w.tvars[v].ts[r.idx].trace]
           ELSE IF BufferFind(r.w, state, v) # NULL
           THEN [w |-> r.w, v |-> BufferFind(r.w, state, v)]
           ELSE EmbedConstant(r.w, state, v) :
           r \in {getValueState(W, state, v, TRUE)}})

\* getOutputTrace.  Returns [w, ok, v]; ok = FALSE is the runtime_error
\* "output <output_no> of traced region did not have observable data dependence"
getOutputTrace_alloc(W, state, v) ==
    IF ~W.tvars[v].defined
    THEN Only({[w |-> u.w, ok |-> TRUE, v |-> u.v] : u \in {AppendLeaf(W, state, "Undefined")}})
    ELSE Only({[w |-> r.w, ok |-> TRUE, v |-> r.w.tvars[v].ts[r.idx].trace] :
               r \in {getValueState(W, state, v, TRUE)}})

getOutputTrace(W, state, v) ==
    IF ~W.tvars[v].defined
    THEN Only({[w |-> u.w, ok |-> TRUE, v |-> u.v] : u \in {AppendLeaf(W, state, "Undefined")}})
    ELSE Only({
           IF r.idx = 0 THEN [w |-> r.w, ok |-> FALSE, v |-> NULL]
           ELSE [w |-> r.w, ok |-> TRUE, v |-> r.w.tvars[v].ts[r.idx].trace] :
           r \in {getValueState(W, state, v, FALSE)}})

\* a new defined Variable (the result of an operation); it is NextVar(W)
NextVar(W) == Len(W.tvars) + 1

NewVar(W) == [W EXCEPT !.tvars = Append(@, [defined |-> TRUE, ts |-> <<>>])]

\* preRecordTrace / postRecordTrace: the node of the operation is created, each
\* input is resolved with getValueTrace and added, the node is appended, and
\* each result Variable is associated with a new output of the node.
\* Returns [w, ok, s, n]; ok = FALSE when getTracingState fails.
RECURSIVE ResolveInputs(_, _, _, _)
ResolveInputs(W, state, n, vs) ==
    IF vs = <<>> THEN W
    ELSE Only({ResolveInputs(W1, state, n, Tail(vs)) :
               W1 \in {Node_addInput(r.w, n, r.v) : r \in {getValueTrace(W, state, Head(vs))}}})

RECURSIVE RecordOutputs(_, _, _, _)
RecordOutputs(W, state, n, k) ==
    IF k = 0 THEN W
    ELSE Only({RecordOutputs(W2, state, n, k - 1) :
               W2 \in {setValueTrace(W1, state, Len(W1.tvars),
                                     <<W1.nodes[n].g, n, Len(W1.nodes[n].outs)>>) :
                       W1 \in {Node_addOutput(NewVar(W), n)}}})

RecordInto(W, state, kind, inputs, nOut) ==
    Only({[w |-> RecordOutputs(W2, state, NextNode(W), nOut),
           ok |-> TRUE, s |-> state, n |-> NextNode(W)] :
          W2 \in {Graph_appendNode(ResolveInputs(W1, state, NextNode(W), inputs),
                                   NextNode(W)) :
                  W1 \in {Graph_create(W, W.tstates[state].graph, kind, 0)}}})

recordTrace(W, kind, inputs, nOut) ==
    Only({IF state = 0 THEN [w |-> W, ok |-> FALSE, s |-> 0, n |-> 0]
          ELSE RecordInto(W, state, kind, inputs, nOut) :
          state \in {getTracingState(W, inputs)}})

\* input.view(input.sizes()): a new Variable; the view is itself an operation
\* on a Variable and is recorded when its operand is being traced.
\* Returns [w, ok, v].
ViewAlias(W, x) ==
    IF isTracingVar(W, x)
    THEN Only({[w |-> r.w, ok |-> r.ok, v |-> Len(r.w.tvars)] :
               r \in {recordTrace(W, "view", <<x>>, 1)}})
    ELSE [w |-> NewVar(W), ok |-> TRUE, v |-> NextVar(W)]

NoHook == [called |-> FALSE, inputs |-> <<>>, active |-> FALSE, outputs |-> <<>>]

NewTracingState(g) ==
    [graph |-> g, active |-> FALSE, alive |-> TRUE, inputs |-> <<>>,
     buffer_map |-> <<>>, hook |-> NoHook]

\* enter, a Variable input: alias it when it is already associated with the
\* state, add a graph input, record it.  Returns [w, ok, v].
AliasIfRepeated_never(W, state, x) == [w |-> W, ok |-> TRUE, v |-> x]

AliasIfRepeated(W, state, x) ==
    Only({IF r.idx # 0 THEN ViewAlias(r.w, x) ELSE [w |-> r.w, ok |-> TRUE, v |-> x] :
          r \in {getValueState(W, state, x, FALSE)}})

EnterVariable(W, state, x) ==
    Only({IF ~al.ok THEN al
          ELSE Only({[w  |-> setValueTrace(W1, state, al.v,
                                           <<W1.tstates[state].graph, 0,
                                             Len(W1.graphs[W1.tstates[state].graph].ins)>>),
                      ok |-> TRUE, v |-> al.v] :
                     W1 \in {Graph_addInput(al.w, al.w.tstates[state].graph)}}) :
          al \in {AliasIfRepeated(W, state, x)}})

\* enter, a buffer input: add a graph input; buffer_map.insert keeps an
\* existing entry of the same tensor
EnterBuffer(W, state, d) ==
    Only({IF BufferFind(W1, state, d) # NULL THEN W1
          ELSE [W1 EXCEPT !.tstates[state].buffer_map =
                    Append(@, <<d, <<W1.tstates[state].graph, 0,
                                     Len(W1.graphs[W1.tstates[state].graph].ins)>>>>)] :
          W1 \in {Graph_addInput(W, W.tstates[state].graph)}})

\* enter: the loop over trace_inputs.  A trace input is <<"var", v>> (a defined
\* Variable) or <<"buf", d>> (a buffer tensor).  Returns [w, ok, inputs].
RECURSIVE EnterLoop(_, _, _, _)
EnterLoop(W, state, tin, inputs) ==
    IF tin = <<>> THEN [w |-> W, ok |-> TRUE, inputs |-> inputs]
    ELSE IF Head(tin)[1] = "var"
    THEN Only({IF ~r.ok THEN [w |-> r.w, ok |-> FALSE, inputs |-> inputs]
               ELSE EnterLoop(r.w, state, Tail(tin), Append(inputs, r.v)) :
               r \in {EnterVariable(W, state, Head(tin)[2])}})
    ELSE Only({EnterLoop(W1, state, Tail(tin), inputs) :
               W1 \in {EnterBuffer(W, state, Head(tin)[2])}})

\* enter.  The new TracingState is Len(tstates) + 1 and owns a new Graph.  When
\* the loop throws, the only reference to the state is dropped.
\* Returns [w, ok, inputs]: inputs is the returned variable_list.
WithNewState(W) ==
    [W EXCEPT !.graphs = Append(@, EmptyGraph),
              !.tstates = Append(@, NewTracingState(Len(W.graphs) + 1))]

enter(W, tin) ==
    Only({IF r.ok
          THEN [w |-> [r.w EXCEPT !.tstates[Len(W.tstates) + 1].active = TRUE,
                                  !.tstates[Len(W.tstates) + 1].inputs = r.inputs],
                ok |-> TRUE, inputs |-> r.inputs]
          ELSE [w |-> [r.w EXCEPT !.tstates[Len(W.tstates) + 1].alive = FALSE],
                ok |-> FALSE, inputs |-> <<>>] :
          r \in {EnterLoop(WithNewState(W), Len(W.tstates) + 1, tin, <<>>)}})

\* detail::_exit: the loop registering getOutputTrace(state, output, i).
\* outs[i] is the code's output number i - 1.  Returns [w, ok, i]: i is the
\* output number named by the runtime_error of getOutputTrace, -1 when there
\* is none.  Graph::registerOutput is not given a Value when getOutputTrace
\* returns a null trace: a structural error, fatal to the exit.
RECURSIVE ExitLoop_noDup(_, _, _, _)
ExitLoop_noDup(W, state, outs, i) ==
    IF i > Len(outs) THEN [w |-> W, ok |-> TRUE, i |-> -1]
    ELSE Only({IF ~r.ok THEN [w |-> r.w, ok |-> FALSE, i |-> i - 1]
               ELSE IF r.v = NULL THEN [w |-> r.w, ok |-> FALSE, i |-> -1]
               ELSE IF r.v \in SeqToSet(r.w.graphs[r.w.tstates[state].graph].outputs)
               THEN ExitLoop_noDup(r.w, state, outs, i + 1)
               ELSE ExitLoop_noDup(Graph_registerOutput(r.w, r.w.tstates[state].graph, r.v),
                                   state, outs, i + 1) :
               r \in {getOutputTrace(W, state, outs[i])}})

RECURSIVE ExitLoop(_, _, _, _)
ExitLoop(W, state, outs, i) ==
    IF i > Len(outs) THEN [w |-> W, ok |-> TRUE, i |-> -1]
    ELSE Only({IF ~r.ok THEN [w |-> r.w, ok |-> FALSE, i |-> i - 1]
               ELSE IF r.v = NULL THEN [w |-> r.w, ok |-> FALSE, i |-> -1]
               ELSE ExitLoop(Graph_registerOutput(r.w, r.w.tstates[state].graph, r.v),
                             state, outs, i + 1) :
               r \in {getOutputTrace(W, state, outs[i])}})

\* detail::traceBackward(state, state->inputs, outputs): the external hook;
\* what it is called with and sees is kept in tstates[state].hook
traceBackward(W, state) ==
    [W EXCEPT !.tstates[state].hook =
        [called  |-> TRUE,
         inputs  |-> W.tstates[state].inputs,
         active  |-> W.tstates[state].active,
         outputs |-> W.graphs[W.tstates[state].graph].outputs]]

\* exit after getTracingState: _exit, the hook, state->inputs.clear().
\* Returns [w, ok, s, i]: s the resolved state (0 when getTracingState
\* fails), i the output number named by the runtime_error (-1: none).
ExitState_clearFirst(W, state, outs) ==
    Only({IF ~r.ok THEN [w |-> r.w, ok |-> FALSE, s |-> state, i |-> r.i]
          ELSE [w |-> traceBackward([r.w EXCEPT !.tstates[state].active = FALSE,
                                                !.tstates[state].inputs = <<>>], state),
                ok |-> TRUE, s |-> state, i |-> -1] :
          r \in {ExitLoop(W, state, outs, 1)}})

ExitState_unwind(W, state, outs) ==
    Only({IF ~r.ok THEN [w |-> W, ok |-> FALSE, s |-> state, i |-> r.i]
          ELSE [w |-> [traceBackward([r.w EXCEPT !.tstates[state].active = FALSE], state)
                          EXCEPT !.tstates[state].inputs = <<>>],
                ok |-> TRUE, s |-> state, i |-> -1] :
          r \in {ExitLoop(W, state, outs, 1)}})

ExitState(W, state, outs) ==
    Only({IF ~r.ok THEN [w |-> r.w, ok |-> FALSE, s |-> state, i |-> r.i]
          ELSE [w |-> [traceBackward([r.w EXCEPT !.tstates[state].active = FALSE], state)
                          EXCEPT !.tstates[state].inputs = <<>>],
                ok |-> TRUE, s |-> state, i |-> -1] :
          r \in {ExitLoop(W, state, outs, 1)}})

exit(W, outs) ==
    Only({IF state = 0 THEN [w |-> W, ok |-> FALSE, s |-> 0, i |-> -1]
          ELSE ExitState(W, state, outs) :
          state \in {getTracingState(W, outs)}})



(***************************************************************************)
(* ToONNX (torch/csrc/jit/passes/onnx.cpp).                                *)
(*                                                                         *)
(* env is the list of the assignments env[old] = new in the order they are *)
(* made, each a pair <<old Value, new Value>>; NULL as new Value is the    *)
(* nullptr of an output the hook did not convert.  The state of the pass   *)
(* is P = [w, env, ok, err, calls]; the new graph is built in P.w as graph  *)
(* ng and is dropped when the pass throws.  The per-node rewrite hook is   *)
(* given by `choices`, the answer of the hook for each node it is called   *)
(* on.  calls lists, in the order they are made, the calls of              *)
(* callPySymbolicMethod's hook ("method"), of callPySymbolicFunction's     *)
(* hook ("function") and of cloneNode ("clone"), each as                   *)
(* <<node, call, the Values returned for the outputs of the node>>.        *)
(***************************************************************************)
EnvHas(env, v) == \E k \in DOMAIN env : env[k][1] = v

EnvAt(env, v) ==
    env[CHOOSE k \in DOMAIN env :
            env[k][1] = v /\ \A j \in (k + 1)..Len(env) : env[j][1] # v][2]

\* envFn does not throw on v
envFn_ok(env, v) == EnvHas(env, v) /\ EnvAt(env, v) # NULL

AllMapped(env, vs) == \A k \in DOMAIN vs : envFn_ok(env, vs[k])

RECURSIVE MapValues(_, _)
MapValues(env, vs) ==
    IF vs = <<>> THEN <<>> ELSE <<EnvAt(env, Head(vs))>> \o MapValues(env, Tail(vs))

\* the Values <<g, n, 1>> .. <<g, n, k>>: node->outputs(), graph->inputs()
RECURSIVE ValuesUpTo(_, _, _)
ValuesUpTo(g, n, k) ==
    IF k = 0 THEN <<>> ELSE Append(ValuesUpTo(g, n, k - 1), <<g, n, k>>)

Node_outputs(W, n) == ValuesUpTo(W.nodes[n].g, n, Len(W.nodes[n].outs))

RECURSIVE EnvSetAll(_, _, _)
EnvSetAll(env, olds, news) ==
    IF olds = <<>> THEN env
    ELSE EnvSetAll(Append(env, <<Head(olds), Head(news)>>), Tail(olds), Tail(news))

\* uses() of a Value counts the graph's return node: a graph output is in use
Used(W, v) == uses(W, v) # <<>> \/ v \in SeqToSet(W.graphs[v[1]].outputs)

hasHandleOutput(W, n) == W.nodes[n].handle

hasUsedHandle(W, n) ==
    hasHandleOutput(W, n) /\ Used(W, <<W.nodes[n].g, n, Len(W.nodes[n].outs)>>)

\* the pass throws; the text of the exception is the list of its parts
Fail(P, err) == [w |-> P.w, env |-> P.env, ok |-> FALSE, err |-> <<err>>, calls |-> P.calls]

createClone_unmapped(W, n, ng, env) ==
    AddInputs([Graph_create(W, ng, W.nodes[n].kind, Len(W.nodes[n].outs))
                  EXCEPT !.nodes[NextNode(W)].handle = W.nodes[n].handle,
                         !.nodes[NextNode(W)].sym = W.nodes[n].sym,
                         !.nodes[NextNode(W)].loc = W.nodes[n].loc,
                         !.nodes[NextNode(W)].attrs = W.nodes[n].attrs],
              NextNode(W), W.nodes[n].inputs)

\* Graph::createClone(node, envFn): same kind, same number of outputs, the
\* inputs mapped by envFn
createClone(W, n, ng, env) ==
    AddInputs([Graph_create(W, ng, W.nodes[n].kind, Len(W.nodes[n].outs))
                  EXCEPT !.nodes[NextNode(W)].handle = W.nodes[n].handle,
                         !.nodes[NextNode(W)].sym = W.nodes[n].sym,
                         !.nodes[NextNode(W)].loc = W.nodes[n].loc,
                         !.nodes[NextNode(W)].attrs = W.nodes[n].attrs],
              NextNode(W), MapValues(env, W.nodes[n].inputs))

Graph_prependNode(W, n) == [W EXCEPT !.graphs[W.nodes[n].g].order = <<n>> \o @]

cloneNode_prepend(P, n, ng) ==
    IF ~AllMapped(P.env, P.w.nodes[n].inputs)
    THEN Fail([P EXCEPT !.calls = Append(@, <<n, "clone", <<>>>>)], "dangling")
    ELSE Only({[w   |-> Graph_prependNode(W1, NextNode(P.w)),
                env |-> EnvSetAll(P.env, Node_outputs(P.w, n), Node_outputs(W1, NextNode(P.w))),
                ok  |-> TRUE, err |-> <<>>, calls |-> Append(P.calls, <<n, "clone", Node_outputs(W1, NextNode(P.w))>>)] :
               W1 \in {createClone(P.w, n, ng, P.env)}})

cloneNode(P, n, ng) ==
    IF ~AllMapped(P.env, P.w.nodes[n].inputs)
    THEN Fail([P EXCEPT !.calls = Append(@, <<n, "clone", <<>>>>)], "dangling")
    ELSE Only({[w   |-> Graph_appendNode(W1, NextNode(P.w)),
                env |-> EnvSetAll(P.env, Node_outputs(P.w, n), Node_outputs(W1, NextNode(P.w))),
                ok  |-> TRUE, err |-> <<>>, calls |-> Append(P.calls, <<n, "clone", Node_outputs(W1, NextNode(P.w))>>)] :
               W1 \in {createClone(P.w, n, ng, P.env)}})

\* outputs not counting a trailing handle
NumOldOutputs(W, n) == Len(W.nodes[n].outs) - (IF hasHandleOutput(W, n) THEN 1 ELSE 0)

\* setOutputs: the loop over the returned outputs
RECURSIVE SetOutputsFrom(_, _, _, _)
SetOutputsFrom(P, olds, outputs, i) ==
    IF i > Len(outputs) THEN P
    ELSE IF outputs[i] # NULL
    THEN SetOutputsFrom([P EXCEPT !.env = Append(@, <<olds[i], outputs[i]>>),
                                  !.w = IF outputs[i][2] = 0 THEN @
                                        ELSE Node_setSourceLocation(@, outputs[i][2],
                                                                    @.nodes[olds[i][2]].loc)],
                        olds, outputs, i + 1)
    ELSE IF Used(P.w, olds[i])
    THEN Fail([P EXCEPT !.env = Append(@, <<olds[i], NULL>>)], "none for a used output")
    ELSE SetOutputsFrom([P EXCEPT !.env = Append(@, <<olds[i], NULL>>)],
                        olds, outputs, i + 1)

setOutputs_anyArity(P, n, outputs) ==
    Only({IF ~Q.ok \/ ~hasHandleOutput(P.w, n) THEN Q
          ELSE IF Used(P.w, <<P.w.nodes[n].g, n, Len(P.w.nodes[n].outs)>>)
          THEN Fail(Q, "assert")
          ELSE [Q EXCEPT !.env = Append(@, <<<<P.w.nodes[n].g, n, Len(P.w.nodes[n].outs)>>,
                                             NULL>>)] :
          Q \in {SetOutputsFrom(P, Node_outputs(P.w, n),
                                SubSeq(outputs \o Repeat(NULL, Len(P.w.nodes[n].outs)),
                                       1, NumOldOutputs(P.w, n)), 1)}})

\* setOutputs(op_name, node, outputs); op_name is the kind of the node
setOutputs(P, n, outputs) ==
    IF Len(outputs) # NumOldOutputs(P.w, n)
    THEN [Fail(P, "incorrect number of outputs")
             EXCEPT !.err = <<"symbolic produced an incorrect number of outputs",
                              P.w.nodes[n].kind, NumOldOutputs(P.w, n), Len(outputs)>>]
    ELSE Only({IF ~Q.ok \/ ~hasHandleOutput(P.w, n) THEN Q
               ELSE IF Used(P.w, <<P.w.nodes[n].g, n, Len(P.w.nodes[n].outs)>>)
               THEN Fail(Q, "assert")
               ELSE [Q EXCEPT !.env = Append(@, <<<<P.w.nodes[n].g, n, Len(P.w.nodes[n].outs)>>,
                                                  NULL>>)] :
               Q \in {SetOutputsFrom(P, Node_outputs(P.w, n), outputs, 1)}})

\* The per-node rewrite hook (_run_symbolic_function / _run_symbolic_method),
\* called with the new graph and the mapped inputs.  Its answers:
\*   "none"  none: fall back to cloning
\*   "op"    one new node over the mapped inputs, appended to the new graph;
\*           its outputs are returned
\*   "pass"  the first mapped input is returned for every output (as "none"
\*           when the node has no input)
\*   "null"  None is returned for every output
\*   "arity" one output too many is returned
\* Returns [w, none, outputs].
HookResults == {"none", "op", "pass", "null", "arity"}

symbolic(W, ng, mapped, q, res) ==
    IF res = "op"
    THEN [w |-> Graph_appendNode(AddInputs(Graph_create(W, ng, "onnx", q), NextNode(W), mapped),
                                 NextNode(W)),
          none |-> FALSE, outputs |-> ValuesUpTo(ng, NextNode(W), q)]
    ELSE IF res = "pass" /\ mapped # <<>>
    THEN [w |-> W, none |-> FALSE, outputs |-> Repeat(mapped[1], q)]
    ELSE IF res = "null" THEN [w |-> W, none |-> FALSE, outputs |-> Repeat(NULL, q)]
    ELSE IF res = "arity" THEN [w |-> W, none |-> FALSE, outputs |-> Repeat(NULL, q + 1)]
    ELSE [w |-> W, none |-> TRUE, outputs |-> <<>>]

\* processSymbolicOutput
processSymbolicOutput(P, n, ng, h) ==
    IF h.none THEN cloneNode([P EXCEPT !.w = h.w], n, ng)
    ELSE setOutputs([P EXCEPT !.w = h.w], n, h.outputs)

\* callPySymbolicFunction / callPySymbolicMethod on a payload that has a
\* `symbolic` attribute: the inputs are mapped by envFn, the hook is called
callPySymbolic(P, n, ng, res, level) ==
    IF ~AllMapped(P.env, P.w.nodes[n].inputs) THEN Fail(P, "dangling")
    ELSE Only({processSymbolicOutput([P EXCEPT !.calls = Append(@, <<n, level, h.outputs>>)],
                                     n, ng, h) :
               h \in {symbolic(P.w, ng, MapValues(P.env, P.w.nodes[n].inputs),
                               NumOldOutputs(P.w, n), res)}})

\* callPySymbolicFunction: _run_symbolic_function is called
callPySymbolicFunction(P, n, ng, res) == callPySymbolic(P, n, ng, res, "function")

\* callPySymbolicMethod: the node is cloned when its payload has no
\* `symbolic` attribute, else _run_symbolic_method is called
callPySymbolicMethod(P, n, ng, choices) ==
    IF ~P.w.nodes[n].sym THEN cloneNode(P, n, ng)
    ELSE callPySymbolic(P, n, ng, choices[n], "method")

\* the nodes the visit loop clones without calling a hook
ClonedOnly(W, n) ==
    \/ hasUsedHandle(W, n)
    \/ W.nodes[n].kind = "CppOp"
    \/ W.nodes[n].kind = "PythonOp" /\ ~W.nodes[n].sym
    \/ W.nodes[n].kind = "Undefined"

\* the body of the visit loop
visitNode(P, n, ng, choices) ==
    IF hasUsedHandle(P.w, n) THEN cloneNode(P, n, ng)
    ELSE IF P.w.nodes[n].kind = "CppOp" THEN cloneNode(P, n, ng)
    ELSE IF P.w.nodes[n].kind = "PythonOp" THEN callPySymbolicMethod(P, n, ng, choices)
    ELSE IF P.w.nodes[n].kind = "Undefined" THEN cloneNode(P, n, ng)
    ELSE callPySymbolicFunction(P, n, ng, choices[n])

RECURSIVE VisitLoop(_, _, _, _)
VisitLoop(P, order, ng, choices) ==
    IF order = <<>> \/ ~P.ok THEN P
    ELSE VisitLoop(visitNode(P, Head(order), ng, choices), Tail(order), ng, choices)

\* the loop over state->graph->inputs()
RECURSIVE CopyInputs(_, _, _, _)
CopyInputs(P, g, ng, i) ==
    IF i > Len(P.w.graphs[g].ins) THEN P
    ELSE CopyInputs([w   |-> Graph_addInput(P.w, ng),
                     env |-> Append(P.env, <<<<g, 0, i>>, <<ng, 0, i>>>>),
                     ok  |-> TRUE, err |-> <<>>, calls |-> P.calls], g, ng, i + 1)

\* new_buffer_map[kv.first] = envFn(kv.second)
RECURSIVE MapBuffers(_, _)
MapBuffers(env, bm) ==
    IF bm = <<>> THEN <<>>
    ELSE <<<<Head(bm)[1], EnvAt(env, Head(bm)[2])>>>> \o MapBuffers(env, Tail(bm))

\* the loop registering env.at(output)
RECURSIVE RegisterOutputs(_, _, _)
RegisterOutputs(P, outs, ng) ==
    IF outs = <<>> \/ ~P.ok THEN P
    ELSE IF ~EnvHas(P.env, Head(outs)) THEN Fail(P, "out_of_range")
    ELSE IF EnvAt(P.env, Head(outs)) = NULL THEN Fail(P, "null output")
    ELSE RegisterOutputs([P EXCEPT !.w = Graph_registerOutput(P.w, ng, EnvAt(P.env, Head(outs)))],
                         Tail(outs), ng)

\* TracingState::is_expired: the state has no graph any more
is_expired(W, s) == W.tstates[s].graph = 0

\* the whole pass up to the commit
BuildNewGraph(W, g, ng, choices) ==
    RegisterOutputs(
        VisitLoop(CopyInputs([w |-> [W EXCEPT !.graphs = Append(@, EmptyGraph)],
                              env |-> <<>>, ok |-> TRUE, err |-> <<>>, calls |-> <<>>],
                             g, ng, 1),
                  W.graphs[g].order, ng, choices),
        W.graphs[g].outputs, ng)

\* ToONNX(state).  Returns [w, ok, err, calls]; the new graph is
\* Len(graphs) + 1.
ToONNX_eager(W, s, choices) ==
    IF is_expired(W, s)
    THEN [w |-> W, ok |-> FALSE, err |-> <<"tracing state is expired">>, calls |-> <<>>]
    ELSE Only({[w |-> [P.w EXCEPT
                         !.graphs[Len(W.graphs) + 1].stage = W.graphs[W.tstates[s].graph].stage,
                         !.tstates[s].graph = Len(W.graphs) + 1,
                         !.tstates[s].buffer_map = <<>>],
                ok |-> P.ok, err |-> P.err, calls |-> P.calls] :
               P \in {BuildNewGraph(W, W.tstates[s].graph, Len(W.graphs) + 1, choices)}})

ToONNX(W, s, choices) ==
    IF is_expired(W, s)
    THEN [w |-> W, ok |-> FALSE, err |-> <<"tracing state is expired">>, calls |-> <<>>]
    ELSE Only({IF ~P.ok THEN [w |-> W, ok |-> FALSE, err |-> P.err, calls |-> P.calls]
               ELSE [w |-> [P.w EXCEPT
                              !.graphs[Len(W.graphs) + 1].stage = W.graphs[W.tstates[s].graph].stage,
                              !.tstates[s].graph = Len(W.graphs) + 1,
                              !.tstates[s].buffer_map = MapBuffers(P.env, W.tstates[s].buffer_map)],
                     ok |-> TRUE, err |-> <<>>, calls |-> P.calls] :
               P \in {BuildNewGraph(W, W.tstates[s].graph, Len(W.graphs) + 1, choices)}})

(***************************************************************************)
(* The record kept in "last": op names the operation, ok its outcome, s    *)
(* the TracingState, n the node, i an index or a count, a and b Values,    *)
(* args a list.                                                            *)
(***************************************************************************)
Op(op, ok, s, n, i, a, b, args) ==
    [op |-> op, ok |-> ok, s |-> s, n |-> n, i |-> i, a |-> a, b |-> b, args |-> args]

NoOp == Op("init", TRUE, 0, 0, 0, NULL, NULL, <<>>)

(***************************************************************************)
(* Specification SpecIR: direct mutation of a Graph through the IR         *)
(* operations bound in python_ir.cpp and through SymbolicVariable::create. *)
(* Graph 1 is the graph under mutation; graph 2 is a second graph whose    *)
(* single input serves as a Value of a different graph.                    *)
(***************************************************************************)
IRKinds == {"add"}

IRCommit(W, op) ==
    /\ graphs' = W.graphs
    /\ nodes' = W.nodes
    /\ last' = op
    /\ steps' = steps + 1
    /\ UNCHANGED <<tstates, tvars, hist>>

InitIR ==
    /\ graphs = <<[EmptyGraph EXCEPT !.ins = <<<<>>>>], [EmptyGraph EXCEPT !.ins = <<<<>>>>]>>
    /\ nodes = <<>>
    /\ tstates = <<>>
    /\ tvars = <<>>
    /\ last = NoOp
    /\ hist = <<>>
    /\ steps = 0

IRAddGraphInput ==
    /\ steps < MaxIRSteps
    /\ Len(graphs[1].ins) < MaxGraphInputs
    /\ IRCommit(Graph_addInput(World, 1),
                Op("Graph.addInput", TRUE, 0, 0, 0, <<1, 0, Len(graphs[1].ins) + 1>>, NULL, <<>>))

IRCreate ==
    /\ steps < MaxIRSteps
    /\ NextNode(World) <= MaxNodes
    /\ \E kind \in IRKinds, nOut \in OutCounts,
          inputs \in SeqsUpTo(ValuesOfGraph(World, 1), MaxNodeInputs) :
            IRCommit(SymCreate(World, kind, inputs, nOut, IF inputs = <<>> THEN 1 ELSE 0),
                     Op("create", TRUE, 0, NextNode(World), 0, NULL, NULL, inputs))

IRAddInput ==
    /\ steps < MaxIRSteps
    /\ \E n \in LiveNodes(World), v \in ValuesOfGraph(World, 1) :
        /\ nodes[n].g = 1
        /\ Len(nodes[n].inputs) < MaxNodeInputs
        /\ IRCommit(Node_addInput(World, n, v),
                    Op("addInput", TRUE, 0, n, Len(nodes[n].inputs) + 1, v, NULL, <<>>))

IRReplaceInput ==
    /\ steps < MaxIRSteps
    /\ \E n \in LiveNodes(World), v \in ValuesOfGraph(World, 1) :
        \E i \in DOMAIN nodes[n].inputs :
            IRCommit(Node_replaceInput(World, n, i, v),
                     Op("replaceInput", TRUE, 0, n, i, nodes[n].inputs[i], v, <<>>))

IRReplaceInputWith ==
    /\ steps < MaxIRSteps
    /\ \E n \in LiveNodes(World), to \in ValuesOfGraph(World, 1) :
        \E from \in SeqToSet(nodes[n].inputs) :
            IRCommit(Node_replaceInputWith(World, n, from, to),
                     Op("replaceInputWith", TRUE, 0, n, 0, from, to, <<>>))

\* old and new are two Values; the call is refused when they are of
\* different graphs
IRReplaceAllUsesWith ==
    /\ steps < MaxIRSteps
    /\ \E old \in AllValues(World), new \in AllValues(World) :
        /\ old # new
        /\ IF owningGraph(old) = owningGraph(new)
           THEN IRCommit(Value_replaceAllUsesWith(World, old, new),
                         Op("replaceAllUsesWith", TRUE, 0, 0, Len(uses(World, old)), old, new, <<>>))
           ELSE IRCommit(World, Op("replaceAllUsesWith", FALSE, 0, 0, 0, old, new, <<>>))

IRRemoveInput ==
    /\ steps < MaxIRSteps
    /\ \E n \in LiveNodes(World) : \E i \in DOMAIN nodes[n].inputs :
            IRCommit(Node_removeInput(World, n, i),
                     Op("removeInput", TRUE, 0, n, i, nodes[n].inputs[i], NULL, <<>>))

IRRemoveAllInputs ==
    /\ steps < MaxIRSteps
    /\ \E n \in LiveNodes(World) :
            IRCommit(Node_removeAllInputs(World, n),
                     Op("removeAllInputs", TRUE, 0, n, 0, NULL, NULL, nodes[n].inputs))

IRDestroy ==
    /\ steps < MaxIRSteps
    /\ \E n \in LiveNodes(World) :
        IF CanDestroy(World, n)
        THEN IRCommit(Node_destroy(World, n),
                      Op("destroy", TRUE, 0, n, 0, NULL, NULL, nodes[n].inputs))
        ELSE IRCommit(World, Op("destroy", FALSE, 0, n, 0, NULL, NULL, nodes[n].inputs))

\* the scalars of the builder's arithmetic: the integers -1, 0, 1, 2 and the
\* floating-point values 0.5, 1.0, 1.5
Scalars ==
    {[isFloatingPoint |-> FALSE, halves |-> 2 * k] : k \in {-1, 0, 1, 2}}
    \cup {[isFloatingPoint |-> TRUE, halves |-> h] : h \in {1, 2, 3}}

\* x * scalar and x + scalar on a Value x of the graph: last.a is x, last.b
\* the result, last.args the scalar
IRMulScalar ==
    /\ steps < MaxIRSteps
    /\ NextNode(World) <= MaxNodes
    /\ \E x \in ValuesOfGraph(World, 1), rhs \in Scalars :
       \E r \in {SymMulScalar(World, x, rhs)} :
           IRCommit(r.w, Op("operator*", TRUE, 0, NextNode(World), 0, x, r.v, <<rhs>>))

IRAddScalar ==
    /\ steps < MaxIRSteps
    /\ NextNode(World) <= MaxNodes
    /\ \E x \in ValuesOfGraph(World, 1), rhs \in Scalars :
       \E r \in {SymAddScalar(World, x, rhs)} :
           IRCommit(r.w, Op("operator+", TRUE, 0, NextNode(World), 0, x, r.v, <<rhs>>))

NextIR ==
    \/ IRAddGraphInput
    \/ IRCreate
    \/ IRMulScalar
    \/ IRAddScalar
    \/ IRAddInput
    \/ IRReplaceInput
    \/ IRReplaceInputWith
    \/ IRReplaceAllUsesWith
    \/ IRRemoveInput
    \/ IRRemoveAllInputs
    \/ IRDestroy

SpecIR == InitIR /\ [][NextIR]_vars

(***************************************************************************)
(* Properties of the IR.                                                   *)
(***************************************************************************)
\* the (node, position) pairs whose input array holds v
InputPairs(W, v) ==
    UNION {{<<n, i>> : i \in {j \in DOMAIN W.nodes[n].inputs : W.nodes[n].inputs[j] = v}} :
           n \in LiveNodes(W)}

C3_DestroyPrecondition ==
    [][last'.op = "destroy" =>
        /\ last'.ok <=> ~Node_hasUses(World, last'.n)
        /\ ~last'.ok => graphs' = graphs /\ nodes' = nodes
        /\ last'.ok =>
            /\ \A g \in DOMAIN graphs' : last'.n \notin SeqToSet(graphs'[g].order)
            /\ last'.n \notin LiveNodes(World')
            /\ \A v \in AllValues(World') :
                   \A k \in DOMAIN uses(World', v) : uses(World', v)[k][1] # last'.n
      ]_vars

\* destroy was refused for a node with two outputs of which only one is in use
C3_Witness ==
    /\ last.op = "destroy"
    /\ ~last.ok
    /\ Len(nodes[last.n].outs) = 2
    /\ \E o \in 1..2 : nodes[last.n].outs[o] = <<>>

\* destroy succeeded on a node that had inputs
C3_WitnessSuccess ==
    /\ last.op = "destroy"
    /\ last.ok
    /\ last.args # <<>>

\* C4: replaceAllUsesWith(old, new) on two Values succeeds exactly when they
\* are of the same graph; afterwards old's use-list is empty, every (consumer,
\* position) of old's former use-list holds new, new's use-list is its former
\* use-list plus the transferred pairs, and no other use-list and no node
\* order has changed.
C4_ReplaceAllUsesWith ==
    [][last'.op = "replaceAllUsesWith" =>
        LET old == last'.a
            new == last'.b
        IN  /\ last'.ok <=> owningGraph(old) = owningGraph(new)
            /\ last'.ok =>
                /\ uses(World', old) = <<>>
                /\ \A k \in DOMAIN uses(World, old) :
                     nodes'[uses(World, old)[k][1]].inputs[uses(World, old)[k][2]] = new
                /\ SeqToSet(uses(World', new)) =
                     SeqToSet(uses(World, new)) \cup SeqToSet(uses(World, old))
                /\ Len(uses(World', new)) = Len(uses(World, new)) + Len(uses(World, old))
                /\ \A v \in AllValues(World) \ {old, new} : uses(World', v) = uses(World, v)
                /\ \A g \in DOMAIN graphs : graphs'[g].order = graphs[g].order
      ]_vars

\* both Values had uses before the call, so uses were transferred onto a
\* non-empty use-list
C4_Witness ==
    /\ last.op = "replaceAllUsesWith"
    /\ last.ok
    /\ last.i >= 2
    /\ Len(uses(World, last.b)) > last.i

(***************************************************************************)
(* Specification Spec: the tracer.  Variables 1 and 2 are defined tensors  *)
(* that exist before any trace, Variable 3 is an undefined Variable; the   *)
(* tensor of Variable 2 is also passed to enter as a buffer.               *)
(***************************************************************************)
InitVars == <<[defined |-> TRUE, ts |-> <<>>],
              [defined |-> TRUE, ts |-> <<>>],
              [defined |-> FALSE, ts |-> <<>>]>>

Buffers == {2}

ArgCounts == {1, 2}

DefinedVars(W) == {v \in DOMAIN W.tvars : W.tvars[v].defined}

TraceInputs(W) == {<<"var", 1>>} \cup {<<"buf", d>> : d \in Buffers}

SeqsOf(S, lens) == UNION {[1..k -> S] : k \in lens}

Init ==
    /\ graphs = <<>>
    /\ nodes = <<>>
    /\ tstates = <<>>
    /\ tvars = InitVars
    /\ last = NoOp
    /\ hist = <<>>
    /\ steps = 0

\* An operation that fails without any effect ends the run: every continuation
\* would be a continuation of the state before it.
Commit(W, op, h) ==
    /\ graphs' = W.graphs
    /\ nodes' = W.nodes
    /\ tstates' = W.tstates
    /\ tvars' = W.tvars
    /\ last' = op
    /\ hist' = h
    /\ steps' = IF W = World THEN MaxSteps ELSE steps + 1

Logged(s, op) == [hist EXCEPT ![s] = Append(@, op)]

TrEnter ==
    /\ steps < MaxSteps
    /\ Len(tstates) < MaxStates
    /\ \E tin \in SeqsOf(TraceInputs(World), ArgCounts) :
        \E r \in {enter(World, tin)} :
        \E op \in {Op("enter", r.ok, Len(tstates) + 1, 0, 0, r.inputs, NULL, tin)} :
            Commit(r.w, op, Append(hist, <<op>>))

TrRecord ==
    /\ steps < MaxSteps
    /\ \E inputs \in SeqsOf(DOMAIN tvars, ArgCounts) :
        /\ isTracing(World, inputs)
        /\ \E r \in {recordTrace(World, "add", inputs, 1)} :
           \E op \in {Op("record", r.ok, r.s, r.n, IF r.ok THEN Len(r.w.tvars) ELSE 0,
                          NULL, NULL, inputs)} :
               Commit(r.w, op, IF r.ok THEN Logged(r.s, op) ELSE hist)

TrExit ==
    /\ steps < MaxSteps
    /\ \E outs \in SeqsOf(DOMAIN tvars, ArgCounts) :
        \E r \in {exit(World, outs)} :
        \E op \in {Op("exit", r.ok, r.s, 0, r.i, NULL, NULL, outs)} :
            Commit(r.w, op, IF r.s # 0 THEN Logged(r.s, op) ELSE hist)

\* the last strong reference to a TracingState is dropped
TrRelease ==
    /\ steps < MaxSteps
    /\ \E s \in DOMAIN tstates :
        /\ tstates[s].alive
        /\ Commit([World EXCEPT !.tstates[s].alive = FALSE, !.tstates[s].active = FALSE],
                  Op("release", TRUE, s, 0, 0, NULL, NULL, <<>>), hist)

\* ToONNX is run on a trace that is complete: exit has made it inactive.
\* The hook is called on the nodes that are not cloned without it.
HookNodes(W, g) == {n \in SeqToSet(W.graphs[g].order) : ~ClonedOnly(W, n)}

TrToONNX ==
    /\ steps < MaxSteps
    /\ \E s \in DOMAIN tstates :
        /\ tstates[s].alive
        /\ ~tstates[s].active
        /\ \E choices \in [HookNodes(World, tstates[s].graph) -> HookResults] :
            \E r \in {ToONNX(World, s, choices)} :
            \E op \in {Op("ToONNX", r.ok, s, 0, tstates[s].graph, r.calls, NULL, <<r.err, choices>>)} :
                Commit(r.w, op, Logged(s, op))

Next ==
    \/ TrEnter
    \/ TrRecord
    \/ TrExit
    \/ TrRelease
    \/ TrToONNX

Spec == Init /\ [][Next]_vars

(***************************************************************************)
(* Properties of the tracer and of the ToONNX pass.                        *)
(***************************************************************************)
\* the TracingStates of the elems of v
StatesOf(W, v) == {W.tvars[v].ts[k].state : k \in DOMAIN W.tvars[v].ts}

\* the Value recorded for v under state s: the trace of the elem of s in
\* var.tracing_state(), NULL when v is undefined, has no elem of s or the elem
\* holds no Value
RecordedValue(W, s, v) ==
    IF W.tvars[v].defined /\ s \in StatesOf(W, v)
    THEN W.tvars[v].ts[CHOOSE k \in DOMAIN W.tvars[v].ts : W.tvars[v].ts[k].state = s].trace
    ELSE NULL

\* the live, active TracingStates associated with the defined Variables of vs
ActiveStatesOf(W, vs) ==
    UNION {{s \in StatesOf(W, vs[k]) : W.tstates[s].alive /\ W.tstates[s].active} :
           k \in {j \in DOMAIN vs : W.tvars[vs[j]].defined}}

\* what a lookup of v under s (getValueState without allocation) returns
Lookup(W, s, v) ==
    Only({IF r.idx = 0 THEN NULL ELSE r.w.tvars[v].ts[r.idx].trace :
          r \in {getValueState(W, s, v, FALSE)}})

C5_RoundTrip ==
    \A s \in DOMAIN hist :
        (/\ Len(hist[s]) = 3
         /\ hist[s][1].op = "enter" /\ hist[s][1].ok
         /\ Len(hist[s][1].args) = 1 /\ hist[s][1].args[1][1] = "var"
         /\ hist[s][2].op = "record" /\ hist[s][2].ok
         /\ hist[s][2].args = <<hist[s][1].args[1][2], hist[s][1].args[1][2]>>
         /\ hist[s][3].op = "exit" /\ hist[s][3].ok
         /\ hist[s][3].args = <<hist[s][2].i>>)
        => LET g == tstates[s].graph
           IN  /\ Len(graphs[g].ins) = 1
               /\ Cardinality({n \in SeqToSet(graphs[g].order) : nodes[n].kind = "add"}) = 1
               /\ \A n \in SeqToSet(graphs[g].order) :
                    /\ nodes[n].kind # "Constant"
                    /\ nodes[n].kind = "add" => nodes[n].inputs = <<<<g, 0, 1>>, <<g, 0, 1>>>>
               /\ nodes[hist[s][2].n].kind = "add"
               /\ graphs[g].outputs = <<<<g, hist[s][2].n, 1>>>>

\* the round trip has been made
C5_Witness ==
    \E s \in DOMAIN hist :
        /\ Len(hist[s]) = 3
        /\ hist[s][1].op = "enter" /\ hist[s][1].args = <<<<"var", 1>>>>
        /\ hist[s][2].op = "record" /\ hist[s][2].ok /\ hist[s][2].args = <<1, 1>>
        /\ hist[s][3].op = "exit" /\ hist[s][3].ok /\ hist[s][3].args = <<hist[s][2].i>>

\* C6: exit(outputs) resolves a TracingState exactly when the set of the
\* live, active TracingStates associated with the defined outputs has one
\* element, and the state it resolves is that element.
C6_ExitResolvesState ==
    [][last'.op = "exit" =>
        /\ last'.s # 0 <=> Cardinality(ActiveStatesOf(World, last'.args)) = 1
        /\ last'.s # 0 => ActiveStatesOf(World, last'.args) = {last'.s}
      ]_vars

\* exit resolved a state from an output that is associated with two live
\* TracingStates, of which one is not active
C6_Witness ==
    /\ last.op = "exit"
    /\ last.ok
    /\ \E k \in DOMAIN last.args :
        /\ tvars[last.args[k]].defined
        /\ Cardinality({s \in StatesOf(World, last.args[k]) : tstates[s].alive}) = 2

C8_ExitOutputs ==
    [][(last'.op = "exit" /\ last'.ok) =>
        LET s    == last'.s
            outs == last'.args
            g    == tstates[s].graph
            old  == graphs[g].outputs
            new  == graphs'[g].outputs
        IN  /\ Len(new) = Len(old) + Len(outs)
            /\ SubSeq(new, 1, Len(old)) = old
            /\ \A j \in DOMAIN outs : new[Len(old) + j] = RecordedValue(World, s, outs[j])
            /\ ~tstates'[s].active
      ]_vars

\* C8 amended: a successful exit with k outputs appends k entries to the
\* graph's output list and leaves the state inactive; entry j is the Value
\* recorded for outputs[j] under the resolved state when outputs[j] is
\* defined, and the output of a new Undefined node appended by exit when
\* outputs[j] is undefined.
C8_ExitOutputsDefined ==
    [][(last'.op = "exit" /\ last'.ok) =>
        LET s    == last'.s
            outs == last'.args
            g    == tstates[s].graph
            old  == graphs[g].outputs
            new  == graphs'[g].outputs
        IN  /\ Len(new) = Len(old) + Len(outs)
            /\ SubSeq(new, 1, Len(old)) = old
            /\ \A j \in DOMAIN outs :
                IF tvars[outs[j]].defined
                THEN /\ new[Len(old) + j] = RecordedValue(World, s, outs[j])
                     /\ new[Len(old) + j] # NULL
                ELSE /\ new[Len(old) + j][1] = g
                     /\ new[Len(old) + j][2] \notin DOMAIN nodes
                     /\ new[Len(old) + j][2] \in SeqToSet(graphs'[g].order)
                     /\ nodes'[new[Len(old) + j][2]].kind = "Undefined"
            /\ \A j1 \in DOMAIN outs, j2 \in DOMAIN outs :
                (j1 # j2 /\ ~tvars[outs[j1]].defined) => new[Len(old) + j1] # new[Len(old) + j2]
            /\ ~tstates'[s].active
      ]_vars

\* a successful exit of two outputs, twice the same defined Variable
C8_Witness ==
    /\ last.op = "exit"
    /\ last.ok
    /\ Len(last.args) = 2
    /\ last.args[1] = last.args[2]
    /\ tvars[last.args[1]].defined
    /\ Len(graphs[tstates[last.s].graph].outputs) = 2

\* a successful exit with an undefined output
C8_WitnessUndefined ==
    /\ last.op = "exit"
    /\ last.ok
    /\ \E j \in DOMAIN last.args : ~tvars[last.args[j]].defined
    /\ \E j \in DOMAIN last.args : tvars[last.args[j]].defined

\* C9: in a successful exit the hook is called once, after every output has
\* been registered and the state has been made inactive, with the input list
\* that enter recorded; the input list of the state is empty afterwards.
C9_HookOrdering ==
    [][(last'.op = "exit" /\ last'.ok) =>
        LET s == last'.s
            g == tstates[s].graph
        IN  /\ ~tstates[s].hook.called
            /\ tstates'[s].hook.called
            /\ Len(graphs'[g].outputs) = Len(graphs[g].outputs) + Len(last'.args)
            /\ tstates'[s].hook.outputs = graphs'[g].outputs
            /\ ~tstates'[s].hook.active
            /\ tstates'[s].hook.inputs = hist[s][1].a
            /\ tstates'[s].hook.inputs = tstates[s].inputs
            /\ tstates'[s].inputs = <<>>
      ]_vars

\* the hook has been called with a non-empty input list and saw two outputs
C9_Witness ==
    /\ last.op = "exit"
    /\ last.ok
    /\ tstates[last.s].hook.called
    /\ tstates[last.s].hook.inputs # <<>>
    /\ Len(tstates[last.s].hook.outputs) = 2
    /\ tstates[last.s].inputs = <<>>

AliveStates(W) == {s \in DOMAIN W.tstates : W.tstates[s].alive}

\* the elems of the list L whose TracingState still locks
LiveElems(W, L) == SelectSeq(L, LAMBDA e : Locks(W, e))

\* C11 (as stated): lazy reaping.  After any lookup getValueState(s, v, alloc)
\* of a defined Variable v under a live TracingState s, the list of v holds no
\* elem whose TracingState has been destroyed, and no elem whose TracingState
\* is alive has been removed.
C11_LazyReaping ==
    \A v \in DefinedVars(World) : \A s \in AliveStates(World) : \A alloc \in BOOLEAN :
        \A r \in {getValueState(World, s, v, alloc)} :
            /\ \A k \in DOMAIN r.w.tvars[v].ts : Locks(r.w, r.w.tvars[v].ts[k])
            /\ LiveElems(r.w, r.w.tvars[v].ts) \in
                   {LiveElems(World, tvars[v].ts),
                    <<[state |-> s, trace |-> NULL]>> \o LiveElems(World, tvars[v].ts)}

\* C11 (amended): the lookup erases the destroyed elems it walks over and no
\* other.  After getValueState(s, v, alloc): no elem of a destroyed
\* TracingState precedes the returned elem; when the list held no elem of s
\* (the walk reached the end) the list holds no elem of a destroyed
\* TracingState; the elems behind the returned elem are the ones that were
\* behind it before, destroyed ones included; and no elem of a live
\* TracingState has been removed.
C11_LazyReapingWalked ==
    \A v \in DefinedVars(World) : \A s \in AliveStates(World) : \A alloc \in BOOLEAN :
        \A r \in {getValueState(World, s, v, alloc)} :
        \A m \in {MatchIndex(World, s, tvars[v].ts)} :
            /\ \A k \in 1..(r.idx - 1) : Locks(r.w, r.w.tvars[v].ts[k])
            /\ m = 0 => \A k \in DOMAIN r.w.tvars[v].ts : Locks(r.w, r.w.tvars[v].ts[k])
            /\ m # 0 => /\ r.idx # 0
                        /\ SubSeq(r.w.tvars[v].ts, r.idx, Len(r.w.tvars[v].ts))
                              = SubSeq(tvars[v].ts, m, Len(tvars[v].ts))
            /\ LiveElems(r.w, r.w.tvars[v].ts) \in
                   {LiveElems(World, tvars[v].ts),
                    <<[state |-> s, trace |-> NULL]>> \o LiveElems(World, tvars[v].ts)}

\* a recording has looked its input up under the live state and the list of
\* the input still holds, behind the elem of that state, an elem of a
\* destroyed TracingState
C11_Witness ==
    /\ last.op = "record"
    /\ last.ok
    /\ \E k \in DOMAIN last.args :
        \E L \in {tvars[last.args[k]].ts} :
            /\ MatchIndex(World, last.s, L) # 0
            /\ \E j \in DOMAIN L : j > MatchIndex(World, last.s, L) /\ ~Locks(World, L[j])

\* the position in trace_inputs of the k-th trace input that is a Variable
VariablePosition(tin, k) ==
    CHOOSE j \in DOMAIN tin :
        /\ tin[j][1] = "var"
        /\ Cardinality({i \in 1..j : tin[i][1] = "var"}) = k

\* C12: a successful enter(trace_inputs) with n trace inputs creates a new
\* TracingState that is active on return and owns a new Graph with exactly n
\* inputs; the returned list holds one Variable per Variable trace input, in
\* argument order, the k-th being the trace input itself or, when the same
\* Variable occurs earlier in trace_inputs, a new alias Variable; the k-th
\* returned Variable is associated under the new state with the Graph input
\* at the position of its trace input, so that the returned Variables are
\* pairwise distinct and no two share a Graph input.
C12_EnterInputs ==
    [][(last'.op = "enter" /\ last'.ok) =>
        LET s   == last'.s
            tin == last'.args
            ins == last'.a
        IN  /\ s = Len(tstates) + 1
            /\ Len(tstates') = s
            /\ tstates'[s].graph = Len(graphs) + 1
            /\ Len(graphs') = Len(graphs) + 1
            /\ tstates'[s].alive
            /\ tstates'[s].active
            /\ tstates'[s].inputs = ins
            /\ Len(graphs'[tstates'[s].graph].ins) = Len(tin)
            /\ Len(ins) = Cardinality({j \in DOMAIN tin : tin[j][1] = "var"})
            /\ \A k \in DOMAIN ins :
                /\ RecordedValue(World', s, ins[k])
                      = <<tstates'[s].graph, 0, VariablePosition(tin, k)>>
                /\ IF \E j \in 1..(VariablePosition(tin, k) - 1) :
                          tin[j] = tin[VariablePosition(tin, k)]
                   THEN ins[k] > Len(tvars)
                   ELSE ins[k] = tin[VariablePosition(tin, k)][2]
            /\ \A j \in DOMAIN ins : \A k \in DOMAIN ins :
                j # k => /\ ins[j] # ins[k]
                         /\ RecordedValue(World', s, ins[j]) # RecordedValue(World', s, ins[k])
      ]_vars

\* enter was given the same Variable twice and returned the Variable and an
\* alias of it
C12_Witness ==
    /\ last.op = "enter"
    /\ last.ok
    /\ Len(last.args) = 2
    /\ last.args[1] = last.args[2]
    /\ last.args[1][1] = "var"
    /\ Len(last.a) = 2
    /\ last.a[1] # last.a[2]
    /\ RecordedValue(World, last.s, last.a[1]) = <<tstates[last.s].graph, 0, 1>>
    /\ RecordedValue(World, last.s, last.a[2]) = <<tstates[last.s].graph, 0, 2>>

\* C13: constant embedding is once-only.  For a defined Variable v with no
\* recorded Value under a live TracingState s: when the tensor of v is not a
\* registered buffer of s, getValueTrace(s, v) appends exactly one node, a
\* Constant, to the graph of s, returns its output and records it for v, and
\* a second getValueTrace(s, v) returns the same Value and changes nothing;
\* when the tensor of v is a registered buffer of s, getValueTrace(s, v)
\* returns the Graph input of the buffer and appends no node.
C13_ConstantOnce ==
    \A v \in DefinedVars(World) : \A s \in AliveStates(World) :
        RecordedValue(World, s, v) = NULL =>
            \A r1 \in {getValueTrace(World, s, v)} :
                IF BufferFind(World, s, v) = NULL
                THEN /\ r1.v = <<tstates[s].graph, NextNode(World), 1>>
                     /\ Len(r1.w.nodes) = Len(nodes) + 1
                     /\ r1.w.nodes[NextNode(World)].kind = "Constant"
                     /\ r1.w.nodes[NextNode(World)].inputs = <<>>
                     /\ r1.w.graphs[tstates[s].graph].order
                           = Append(graphs[tstates[s].graph].order, NextNode(World))
                     /\ \A g \in DOMAIN graphs \ {tstates[s].graph} :
                           r1.w.graphs[g] = graphs[g]
                     /\ SubSeq(r1.w.nodes, 1, Len(nodes)) = nodes
                     /\ RecordedValue(r1.w, s, v) = r1.v
                     /\ \A r2 \in {getValueTrace(r1.w, s, v)} :
                           /\ r2.v = r1.v
                           /\ r2.w = r1.w
                ELSE /\ r1.v = BufferFind(World, s, v)
                     /\ r1.v[1] = tstates[s].graph
                     /\ r1.v[2] = 0
                     /\ r1.v[3] \in DOMAIN graphs[tstates[s].graph].ins
                     /\ r1.w.graphs = graphs
                     /\ r1.w.nodes = nodes

\* an operation on an input Variable and an untraced Variable was recorded:
\* the untraced Variable was embedded as a Constant just before the node of
\* the operation, and its output is recorded for it
C13_Witness ==
    /\ last.op = "record"
    /\ last.ok
    /\ Len(last.args) = 2
    /\ Len(graphs[tstates[last.s].graph].order) = 2
    /\ nodes[graphs[tstates[last.s].graph].order[1]].kind = "Constant"
    /\ nodes[last.n].inputs[2] = <<tstates[last.s].graph, graphs[tstates[last.s].graph].order[1], 1>>
    /\ RecordedValue(World, last.s, last.args[2]) = nodes[last.n].inputs[2]
    /\ BufferFind(World, last.s, last.args[2]) = NULL

\* an operation on a Variable that wraps a registered buffer was recorded: its
\* input is the Graph input of the buffer and no Constant was appended
C13_WitnessBuffer ==
    /\ last.op = "record"
    /\ last.ok
    /\ \E k \in DOMAIN last.args :
        /\ BufferFind(World, last.s, last.args[k]) # NULL
        /\ nodes[last.n].inputs[k] = BufferFind(World, last.s, last.args[k])
    /\ graphs[tstates[last.s].graph].order = <<last.n>>

(***************************************************************************)
(* The exporter (torch/csrc/jit/export.cpp).                               *)
(*                                                                         *)
(* A name is a tuple: the unique name of the Value <<g, n, o>> is <<n, o>> *)
(* and the empty string is <<>>.  A tensor is [data, type]: its contents   *)
(* and its element kind.  The result of ExportGraph is a record            *)
(* [status, node, reason, location, graphText, encoded, out]: status "ok"  *)
(* with the byte buffer in out, "error" for the runtime_error of           *)
(* validateGraph (node: the node it is raised for, location / graphText:   *)
(* whether the message carries the node's source location / the graph's    *)
(* textual form), "crash" when the process does not survive; encoded tells *)
(* whether encodeModel was run.                                            *)
(***************************************************************************)
MaxExportNodes == 2

MaxExportNodeInputs == 1

MaxExportOutputs == 2

EmptyName == <<>>

\* value_name: Value::uniqueName, a name no two Values of a graph share
value_name(v) == <<v[2], v[3]>>

\* the kinds of the nodes of an exported graph: the two host-only node
\* classes, Expand, the empty kind name, an ATen (lower-case) kind, an ONNX
\* (upper-case) kind and Undefined
ExportKinds == {"CppOp", "PythonOp", "Expand", "", "add", "Add", "Undefined"}

\* isupper(n[0]) for the kind names of ExportKinds
isupper_first_any(kind) == kind # ""

isupper_first(kind) == kind \in {"CppOp", "PythonOp", "Expand", "Add", "Undefined"}

\* validateGraph, one node: the reason of its FAIL_EXPORT, "none" when the
\* node passes
Rejection_noExpand(W, n) ==
    IF W.nodes[n].kind = "CppOp" THEN "cpp"
    ELSE IF W.nodes[n].kind = "PythonOp" THEN "python"
    ELSE IF W.nodes[n].kind = "" THEN "empty"
    ELSE IF ~isupper_first(W.nodes[n].kind) THEN "kind"
    ELSE "none"

Rejection(W, n) ==
    IF W.nodes[n].kind = "CppOp" THEN "cpp"
    ELSE IF W.nodes[n].kind = "PythonOp" THEN "python"
    ELSE IF W.nodes[n].kind = "Expand" THEN "expand"
    ELSE IF W.nodes[n].kind = "" THEN "empty"
    ELSE IF ~isupper_first(W.nodes[n].kind) THEN "kind"
    ELSE "none"

\* the rejections whose message is built with getNodeStackTraceString(node)
UsesStackTrace(reason) == reason \in {"cpp", "python", "expand", "kind"}

\* the first node of the order that validateGraph rejects, 0 when none
RECURSIVE FirstRejected(_, _)
FirstRejected(W, order) ==
    IF order = <<>> THEN 0
    ELSE IF Rejection(W, Head(order)) # "none" THEN Head(order)
    ELSE FirstRejected(W, Tail(order))

Failure(status, n, reason, location) ==
    [status |-> status, node |-> n, reason |-> reason, location |-> location,
     graphText |-> status = "error", encoded |-> FALSE, out |-> <<>>]

\* validateGraph: the set of its possible outcomes.  getNodeStackTraceString
\* dereferences node->getSourceLocation() without a test; on a node without
\* source location this is a null dereference, after which the process
\* crashes or goes on with a text that is not a source location.
Validated == [status |-> "ok", node |-> 0, reason |-> "none", location |-> FALSE,
              graphText |-> FALSE, encoded |-> FALSE, out |-> <<>>]

RejectNode(W, n) ==
    IF UsesStackTrace(Rejection(W, n)) /\ ~W.nodes[n].loc
    THEN {Failure("crash", n, Rejection(W, n), FALSE),
          Failure("error", n, Rejection(W, n), FALSE)}
    ELSE {Failure("error", n, Rejection(W, n), UsesStackTrace(Rejection(W, n)))}

validateGraph(W, g) ==
    IF FirstRejected(W, W.graphs[g].order) = 0 THEN {Validated}
    ELSE RejectNode(W, FirstRejected(W, W.graphs[g].order))

\* encodeValueInfo of each Value of a list, in order (the type is not kept)
RECURSIVE EncodeValueInfos(_)
EncodeValueInfos(vs) ==
    IF vs = <<>> THEN <<>>
    ELSE <<[name |-> value_name(Head(vs))]>> \o EncodeValueInfos(Tail(vs))

\* the Values of the inputs of graph g, in order
RECURSIVE GraphInputsFrom(_, _, _)
GraphInputsFrom(W, g, i) ==
    IF i > Len(W.graphs[g].ins) THEN <<>>
    ELSE <<<<g, 0, i>>>> \o GraphInputsFrom(W, g, i + 1)

Graph_inputs(W, g) == GraphInputsFrom(W, g, 1)

\* encodeGraph, the inputs of a node: the empty name for the output of an
\* Undefined node
RECURSIVE EncodeNodeInputs(_, _)
EncodeNodeInputs(W, vs) ==
    IF vs = <<>> THEN <<>>
    ELSE <<IF Head(vs)[2] # 0 /\ W.nodes[Head(vs)[2]].kind = "Undefined"
           THEN EmptyName ELSE value_name(Head(vs))>>
         \o EncodeNodeInputs(W, Tail(vs))

RECURSIVE ValueNames(_)
ValueNames(vs) ==
    IF vs = <<>> THEN <<>> ELSE <<value_name(Head(vs))>> \o ValueNames(Tail(vs))

\* encodeGraph, one node record (attributes are not kept)
encodeNode(W, n) ==
    [doc_string |-> W.nodes[n].loc,
     input      |-> EncodeNodeInputs(W, W.nodes[n].inputs),
     output     |-> ValueNames(Node_outputs(W, n)),
     op_type    |-> W.nodes[n].kind]

\* encodeGraph, the loop over the nodes: an Undefined node gets no record
RECURSIVE EncodeNodes_reversed(_, _)
EncodeNodes_reversed(W, order) ==
    IF order = <<>> THEN <<>>
    ELSE IF W.nodes[Head(order)].kind = "Undefined" THEN EncodeNodes_reversed(W, Tail(order))
    ELSE EncodeNodes_reversed(W, Tail(order)) \o <<encodeNode(W, Head(order))>>

RECURSIVE EncodeNodes(_, _)
EncodeNodes(W, order) ==
    IF order = <<>> THEN <<>>
    ELSE IF W.nodes[Head(order)].kind = "Undefined" THEN EncodeNodes(W, Tail(order))
    ELSE <<encodeNode(W, Head(order))>> \o EncodeNodes(W, Tail(order))

\* encodeTensor: the element kind mapped to the data type of the format
DataType(type) ==
    CASE type = "Double" -> "DOUBLE"
      [] type = "Float"  -> "FLOAT"
      [] type = "Half"   -> "FLOAT16"
      [] type \in {"Byte", "Char"} -> "INT8"
      [] type = "Short"  -> "INT16"
      [] type = "Int"    -> "INT32"
      [] type = "Long"   -> "INT64"

encodeTensor(tensor) == [data_type |-> DataType(tensor.type), raw_data |-> tensor.data]

\* encodeGraph, the initializers: inputs_count starts at
\* g->inputs().size() - num_initializers and the initializer is named by
\* get_input_name(inputs_count++) (0-based)
InputsCount_front(n, m) == 0

InputsCount(n, m) == n - m

get_input_name(p_input, i) == p_input[i + 1].name

RECURSIVE EncodeInitializers(_, _, _)
EncodeInitializers(p_input, tensors, inputs_count) ==
    IF tensors = <<>> THEN <<>>
    ELSE <<[name |-> get_input_name(p_input, inputs_count)] @@ encodeTensor(Head(tensors))>>
         \o EncodeInitializers(p_input, Tail(tensors), inputs_count + 1)

encodeGraph(W, g, initializers) ==
    [name        |-> "torch-jit-export",
     input       |-> EncodeValueInfos(Graph_inputs(W, g)),
     output      |-> EncodeValueInfos(W.graphs[g].outputs),
     node        |-> EncodeNodes(W, W.graphs[g].order),
     initializer |-> EncodeInitializers(EncodeValueInfos(Graph_inputs(W, g)), initializers,
                                        InputsCount(Len(W.graphs[g].ins), Len(initializers)))]

\* encodeModel into the ModelProto set up by ExportGraph
encodeModel(W, g, initializers, onnx_opset_version) ==
    [producer_name    |-> "pytorch",
     producer_version |-> "0.3",
     opset_import     |-> <<onnx_opset_version>>,
     graph            |-> encodeGraph(W, g, initializers)]

\* pb_encode: the byte buffer of a ModelProto; pb_decode reads it back
pb_encode(model_proto) == <<"onnx_ModelProto", model_proto>>

pb_decode(out) == out[2]

\* ExportGraph: the set of its possible outcomes
ExportGraph(W, g, initializers, onnx_opset_version) ==
    {IF v.status # "ok" THEN v
     ELSE [v EXCEPT !.encoded = TRUE,
                    !.out = pb_encode(encodeModel(W, g, initializers, onnx_opset_version))] :
     v \in validateGraph(W, g)}

(***************************************************************************)
(* Specification SpecExport: a graph (graph 1) is built through the IR     *)
(* operations and then handed to ExportGraph with a list of initializers   *)
(* no longer than the list of the graph's inputs.                          *)
(***************************************************************************)
ExportTensors == {[data |-> 1, type |-> "Float"], [data |-> 2, type |-> "Long"]}

OpsetVersions == {6}

InitExport ==
    /\ graphs = <<EmptyGraph>>
    /\ nodes = <<>>
    /\ tstates = <<>>
    /\ tvars = <<>>
    /\ last = NoOp
    /\ hist = <<>>
    /\ steps = 0

ExportCommit(W, op) ==
    /\ graphs' = W.graphs
    /\ nodes' = W.nodes
    /\ last' = op
    /\ UNCHANGED <<tstates, tvars, hist, steps>>

ExAddInput ==
    /\ last.op = "init"
    /\ nodes = <<>>
    /\ Len(graphs[1].ins) < MaxGraphInputs
    /\ ExportCommit(Graph_addInput(World, 1), last)

\* a node of one output is created with its inputs and appended
ExCreate ==
    /\ last.op = "init"
    /\ graphs[1].outputs = <<>>
    /\ Len(graphs[1].order) < MaxExportNodes
    /\ \E kind \in ExportKinds : \E loc \in BOOLEAN :
       \E inputs \in SeqsUpTo(ValuesOfGraph(World, 1), MaxExportNodeInputs) :
           ExportCommit(Graph_appendNode(
                            AddInputs(Node_setSourceLocation(Graph_create(World, 1, kind, 1),
                                                             NextNode(World), loc),
                                      NextNode(World), inputs),
                            NextNode(World)),
                        last)

ExRegisterOutput ==
    /\ last.op = "init"
    /\ Len(graphs[1].outputs) < MaxExportOutputs
    /\ \E v \in ValuesOfGraph(World, 1) :
           ExportCommit(Graph_registerOutput(World, 1, v), last)

ExExportGraph ==
    /\ last.op = "init"
    /\ \E initializers \in SeqsUpTo(ExportTensors, Len(graphs[1].ins)) :
       \E version \in OpsetVersions :
       \E r \in ExportGraph(World, 1, initializers, version) :
           ExportCommit(World, Op("ExportGraph", r.status = "ok", 0, r.node,
                                  Len(initializers), r, NULL, initializers))

NextExport ==
    \/ ExAddInput
    \/ ExCreate
    \/ ExRegisterOutput
    \/ ExExportGraph

SpecExport == InitExport /\ [][NextExport]_vars

\* the nodes the claim C14 names: a C++ custom op, a Python op, an Expand-kind
\* node or a node with an empty kind name
NamedRejected(W, n) == W.nodes[n].kind \in {"CppOp", "PythonOp", "Expand", ""}

\* the first node of the order that satisfies NamedRejected, 0 when none
RECURSIVE FirstNamedRejected(_, _)
FirstNamedRejected(W, order) ==
    IF order = <<>> THEN 0
    ELSE IF NamedRejected(W, Head(order)) THEN Head(order)
    ELSE FirstNamedRejected(W, Tail(order))

\* C14 (as stated): export validation precedes encoding.  Whenever the graph
\* contains a C++ custom op, a Python op, an Expand-kind node or a node with
\* an empty kind name, ExportGraph fails, returns no byte buffer and runs no
\* encoding step, and the failure is raised for the first such node in graph
\* order.
C14_ValidationFirst ==
    (last.op = "ExportGraph" /\ FirstNamedRejected(World, graphs[1].order) # 0) =>
        /\ last.a.status # "ok"
        /\ last.a.out = <<>>
        /\ ~last.a.encoded
        /\ last.a.node = FirstNamedRejected(World, graphs[1].order)

\* C14 (amended): whenever the graph contains such a node, ExportGraph fails,
\* returns no byte buffer and runs no encoding step; the failure is raised for
\* the first node in graph order that validateGraph rejects, which is the
\* first such node unless a node of a non-exportable (lower-case) kind
\* precedes it, and is then that node.
C14_ValidationFirstRejected ==
    (last.op = "ExportGraph" /\ FirstNamedRejected(World, graphs[1].order) # 0) =>
        /\ last.a.status # "ok"
        /\ last.a.out = <<>>
        /\ ~last.a.encoded
        /\ \E k \in DOMAIN graphs[1].order :
            /\ graphs[1].order[k] = last.a.node
            /\ \A j \in 1..(k - 1) :
                /\ ~NamedRejected(World, graphs[1].order[j])
                /\ isupper_first(nodes[graphs[1].order[j]].kind)
            /\ \/ NamedRejected(World, last.a.node)
               \/ ~isupper_first(nodes[last.a.node].kind)

\* ExportGraph failed on an Expand node, the second node of the graph
C14_Witness ==
    /\ last.op = "ExportGraph"
    /\ Len(graphs[1].order) = 2
    /\ nodes[graphs[1].order[1]].kind = "Add"
    /\ nodes[graphs[1].order[2]].kind = "Expand"
    /\ last.a.status = "error"
    /\ last.a.node = graphs[1].order[2]
    /\ ~last.a.encoded

\* C15 (as stated): every rejection by validateGraph is an export failure, a
\* runtime_error, that carries the source location of the offending node and
\* the textual form of the graph, for each rejection reason and for every
\* offending node, with or without source-location metadata.
C15_RejectionCarriesLocation ==
    (last.op = "ExportGraph" /\ FirstRejected(World, graphs[1].order) # 0) =>
        /\ last.a.status = "error"
        /\ last.a.node = FirstRejected(World, graphs[1].order)
        /\ last.a.location
        /\ last.a.graphText

\* what does hold of a rejection: a node that carries source-location
\* metadata and is rejected for a reason other than the empty kind name gives
\* a runtime_error with its source location and the textual form of the graph;
\* a node rejected for its empty kind name gives a runtime_error with the
\* textual form of the graph and no source location.
C15_RejectionOfLocatedNode ==
    (last.op = "ExportGraph" /\ FirstRejected(World, graphs[1].order) # 0) =>
        /\ last.a.node = FirstRejected(World, graphs[1].order)
        /\ last.a.status # "ok"
        /\ (nodes[last.a.node].loc /\ nodes[last.a.node].kind # "") =>
              /\ last.a.status = "error"
              /\ last.a.location
              /\ last.a.graphText
        /\ nodes[last.a.node].kind = "" =>
              /\ last.a.status = "error"
              /\ ~last.a.location
              /\ last.a.graphText

\* the process did not survive the validation of a graph whose only node is
\* an Expand node without source location
C15_WitnessCrash ==
    /\ last.op = "ExportGraph"
    /\ Len(graphs[1].order) = 1
    /\ nodes[graphs[1].order[1]].kind = "Expand"
    /\ ~nodes[graphs[1].order[1]].loc
    /\ last.a.status = "crash"

\* a node with source location and an empty kind name was rejected with a
\* message that carries no source location
C15_WitnessEmptyName ==
    /\ last.op = "ExportGraph"
    /\ last.a.status = "error"
    /\ nodes[last.a.node].kind = ""
    /\ nodes[last.a.node].loc
    /\ ~last.a.location

\* the graph record decoded from the byte buffer of a successful ExportGraph
ExportedGraph == pb_decode(last.a.out).graph

\* the input, output records are the Values' names in graph order
IORecordsInOrder(p) ==
    /\ Len(p.input) = Len(graphs[1].ins)
    /\ \A i \in DOMAIN p.input : p.input[i].name = value_name(<<1, 0, i>>)
    /\ Len(p.output) = Len(graphs[1].outputs)
    /\ \A i \in DOMAIN p.output : p.output[i].name = value_name(graphs[1].outputs[i])

\* C16 (as stated): for every graph that passes validation the encoded graph
\* has one input record per Graph input, one output record per Graph output
\* and one node record per Graph node, each sequence in graph order; the
\* number of node records equals the number of nodes of the graph, and each
\* node record lists the node's inputs and outputs by their value names in
\* position order.
C16_RecordPerEntity ==
    (last.op = "ExportGraph" /\ last.ok) =>
        /\ IORecordsInOrder(ExportedGraph)
        /\ Len(ExportedGraph.node) = Len(graphs[1].order)
        /\ \A k \in DOMAIN ExportedGraph.node :
            /\ ExportedGraph.node[k].op_type = nodes[graphs[1].order[k]].kind
            /\ Len(ExportedGraph.node[k].input) = Len(nodes[graphs[1].order[k]].inputs)
            /\ \A i \in DOMAIN ExportedGraph.node[k].input :
                  ExportedGraph.node[k].input[i]
                     = value_name(nodes[graphs[1].order[k]].inputs[i])
            /\ Len(ExportedGraph.node[k].output) = Len(nodes[graphs[1].order[k]].outs)
            /\ \A o \in DOMAIN ExportedGraph.node[k].output :
                  ExportedGraph.node[k].output[o] = value_name(<<1, graphs[1].order[k], o>>)

\* the nodes of the graph that are not Undefined nodes, in graph order
DefinedNodes == SelectSeq(graphs[1].order, LAMBDA n : nodes[n].kind # "Undefined")

\* C16 (amended): for every graph that passes validation the encoded graph
\* has one input record per Graph input and one output record per Graph
\* output, in graph order, and one node record per Graph node that is not an
\* Undefined node, in graph order: an Undefined node gets no record.  Each
\* node record lists the node's outputs by their value names in position
\* order, and its inputs in position order by their value names, except that
\* an input produced by an Undefined node is listed under the empty name.
C16_RecordPerDefinedEntity ==
    (last.op = "ExportGraph" /\ last.ok) =>
        /\ IORecordsInOrder(ExportedGraph)
        /\ Len(ExportedGraph.node) = Len(DefinedNodes)
        /\ \A k \in DOMAIN ExportedGraph.node :
            /\ ExportedGraph.node[k].op_type = nodes[DefinedNodes[k]].kind
            /\ Len(ExportedGraph.node[k].input) = Len(nodes[DefinedNodes[k]].inputs)
            /\ \A i \in DOMAIN ExportedGraph.node[k].input :
                  ExportedGraph.node[k].input[i]
                     = IF /\ nodes[DefinedNodes[k]].inputs[i][2] # 0
                          /\ nodes[nodes[DefinedNodes[k]].inputs[i][2]].kind = "Undefined"
                       THEN EmptyName
                       ELSE value_name(nodes[DefinedNodes[k]].inputs[i])
            /\ Len(ExportedGraph.node[k].output) = Len(nodes[DefinedNodes[k]].outs)
            /\ \A o \in DOMAIN ExportedGraph.node[k].output :
                  ExportedGraph.node[k].output[o] = value_name(<<1, DefinedNodes[k], o>>)

\* a graph of two inputs, two outputs, an Undefined node and an Add node on
\* the output of the Undefined node was exported: one node record, whose
\* input is the empty name
C16_Witness ==
    /\ last.op = "ExportGraph"
    /\ last.ok
    /\ Len(graphs[1].ins) = 2
    /\ Len(graphs[1].outputs) = 2
    /\ graphs[1].outputs[1] # graphs[1].outputs[2]
    /\ Len(graphs[1].order) = 2
    /\ nodes[graphs[1].order[1]].kind = "Undefined"
    /\ nodes[graphs[1].order[2]].kind = "Add"
    /\ nodes[graphs[1].order[2]].inputs = <<<<1, graphs[1].order[1], 1>>>>
    /\ Len(ExportedGraph.node) = 1
    /\ ExportedGraph.node[1].input = <<EmptyName>>

\* a graph of two Add nodes, the second on the output of the first, was
\* exported: two node records in graph order
C16_WitnessTwoNodes ==
    /\ last.op = "ExportGraph"
    /\ last.ok
    /\ Len(graphs[1].order) = 2
    /\ Len(ExportedGraph.node) = 2
    /\ nodes[graphs[1].order[2]].inputs = <<<<1, graphs[1].order[1], 1>>>>
    /\ ExportedGraph.node[2].input = ExportedGraph.node[1].output

\* C17: positional initializer matching.  For a graph of n inputs exported
\* with m initializers (m <= n) the encoded graph has m initializer records in
\* the order supplied; the k-th (0-based) is the encoding of the k-th tensor
\* and is emitted under the name of the Graph input at position n - m + k;
\* the input records are the ones of an export without initializers.
C17_InitializerMatching ==
    (last.op = "ExportGraph" /\ last.ok) =>
        /\ Len(ExportedGraph.initializer) = Len(last.args)
        /\ \A k \in 0..(Len(last.args) - 1) :
            /\ ExportedGraph.initializer[k + 1].name
                  = value_name(<<1, 0, Len(graphs[1].ins) - Len(last.args) + k + 1>>)
            /\ ExportedGraph.initializer[k + 1].name
                  = ExportedGraph.input[Len(graphs[1].ins) - Len(last.args) + k + 1].name
            /\ ExportedGraph.initializer[k + 1].raw_data = last.args[k + 1].data
            /\ ExportedGraph.initializer[k + 1].data_type = DataType(last.args[k + 1].type)
        /\ ExportedGraph.input = encodeGraph(World, 1, <<>>).input
        /\ Len(ExportedGraph.input) = Len(graphs[1].ins)

\* a graph of two inputs was exported with one initializer, emitted under the
\* name of the second input
C17_Witness ==
    /\ last.op = "ExportGraph"
    /\ last.ok
    /\ Len(graphs[1].ins) = 2
    /\ Len(last.args) = 1
    /\ Len(ExportedGraph.initializer) = 1
    /\ ExportedGraph.initializer[1].name = ExportedGraph.input[2].name
    /\ ExportedGraph.initializer[1].name # ExportedGraph.input[1].name

(***************************************************************************)
(* The script front end: the expression parser (script/parser.h).          *)
(*                                                                         *)
(* The Lexer is the list of the tokens it has not yet handed out; past the *)
(* end of the list its current token is TK_EOF.  A token is its text: an   *)
(* identifier, a number, a keyword or a punctuation character.  A tree is  *)
(* [kind, trees]: a Compound of the given kind over its subtrees; a String *)
(* leaf holds its text and a Number leaf its sign and its digits in trees. *)
(* Source ranges are not kept.  A parse function takes the Lexer and       *)
(* returns [ok, tree, rest]: rest is the Lexer when it returns; ok = FALSE *)
(* is the ErrorReport of Lexer::expect (tree: what was expected) or of     *)
(* parseConst.                                                             *)
(***************************************************************************)
IdentTexts == {"a", "b", "c", "LL", "f"}

NumberTexts == {"2", "3", "4", "1.5"}

HasDot_never(text) == FALSE

\* t.text().find('.') != npos for the texts of NumberTexts
HasDot(text) == text = "1.5"

\* the kind of a token
TokenKind(tok) ==
    IF tok \in IdentTexts THEN "TK_IDENT"
    ELSE IF tok \in NumberTexts THEN "TK_NUMBER"
    ELSE tok

\* Lexer::cur().kind and Lexer::cur().text()
cur(L) == IF L = <<>> THEN "TK_EOF" ELSE Head(L)

curKind(L) == TokenKind(cur(L))

\* Lexer::next: the Lexer after the current token is consumed
next(L) == IF L = <<>> THEN L ELSE Tail(L)

\* Lexer::lookahead().kind
lookaheadKind(L) == curKind(next(L))

\* the precedence tables of SharedParserData; 0: not in the table
binary_prec(kind) ==
    CASE kind = "if" -> 1
      [] kind \in {"and", "or"} -> 2
      [] kind \in {"<", ">", "==", "<=", ">=", "!="} -> 4
      [] kind \in {"+", "-"} -> 5
      [] kind \in {"*", "/"} -> 6
      [] OTHER -> 0

unary_prec(kind) ==
    CASE kind = "not" -> 3
      [] kind \in {"-", "*"} -> 7
      [] OTHER -> 0

isBinary(kind) == binary_prec(kind) # 0

isUnary(kind) == unary_prec(kind) # 0

isRightAssociative(kind) == kind = "?"

\* Compound::create (the helper c), String::create (s), Number::create (d)
Compound_create(kind, trees) == [kind |-> kind, trees |-> trees]

String_create(text) == [kind |-> "TK_STRING", trees |-> <<text>>]

Number_create(sign, text) == [kind |-> "TK_NUMBER", trees |-> <<sign, text>>]

Parsed(tree, L) == [ok |-> TRUE, tree |-> tree, rest |-> L]

ErrorReport(what, L) == [ok |-> FALSE, tree |-> Compound_create("error", <<what>>), rest |-> L]

\* Lexer::expect(kind): the token is consumed; its text is the tree
expect(L, kind) ==
    IF curKind(L) = kind THEN Parsed(String_create(cur(L)), next(L)) ELSE ErrorReport(kind, L)

\* parseIdent
parseIdent(L) ==
    Only({IF ~t.ok THEN t ELSE Parsed(Compound_create("TK_IDENT", <<t.tree>>), t.rest) :
          t \in {expect(L, "TK_IDENT")}})

\* parseConst after the literals True and False: the '-' signs, the number
\* and the optional type identifier
RECURSIVE ConstNumber(_, _)
ConstNumber(L, sign) ==
    IF cur(L) = "-" THEN ConstNumber(next(L), IF sign = "+" THEN "-" ELSE "+")
    ELSE IF curKind(L) # "TK_NUMBER" THEN ErrorReport("TK_NUMBER", L)
    ELSE IF curKind(next(L)) # "TK_IDENT"
    THEN Parsed(Compound_create("TK_CONST", <<Number_create(sign, cur(L)), String_create(IF HasDot(cur(L)) THEN "f" ELSE "i")>>),
                next(L))
    ELSE IF cur(next(L)) \notin {"LL", "f"}
    THEN ErrorReport("'f' or 'LL'", next(L))
    ELSE Parsed(Compound_create("TK_CONST", <<Number_create(sign, cur(L)), String_create(cur(next(L)))>>), next(next(L)))

parseConst(L) ==
    IF cur(L) = "True" THEN Parsed(Compound_create("TK_CONST", <<Number_create("+", "1"), String_create("b")>>), next(L))
    ELSE IF cur(L) = "False" THEN Parsed(Compound_create("TK_CONST", <<Number_create("+", "0"), String_create("b")>>), next(L))
    ELSE ConstNumber(L, "+")

\* a parse function followed by Lexer::expect(kind)
ThenExpect(r, kind) ==
    IF ~r.ok THEN r
    ELSE IF curKind(r.rest) = kind THEN Parsed(r.tree, next(r.rest))
    ELSE ErrorReport(kind, r.rest)

RECURSIVE parseExp(_, _)
RECURSIVE parseBaseExp(_)
RECURSIVE PostfixLoop(_)
RECURSIVE BinaryLoop(_, _)
RECURSIVE parseTrinary(_, _, _)
RECURSIVE parseSliceOrGather(_, _)
RECURSIVE SliceSecond(_, _, _)
RECURSIVE createApply(_, _)
RECURSIVE OperatorArguments(_, _, _)
RECURSIVE ConstList(_, _)

\* parseAttributeValue: a constant or a list '[' const, ... ']' (parseList)
ConstList(L, elements) ==
    Only({IF ~e.ok THEN e
          ELSE IF cur(e.rest) = "," THEN ConstList(next(e.rest), Append(elements, e.tree))
          ELSE ThenExpect(Parsed(Compound_create("TK_LIST_LITERAL",
                                   <<Compound_create("TK_LIST", Append(elements, e.tree))>>), e.rest),
                          "]") :
          e \in {parseConst(L)}})

parseAttributeValue(L) ==
    IF cur(L) = "["
    THEN IF cur(next(L)) = "]"
         THEN Parsed(Compound_create("TK_LIST_LITERAL", <<Compound_create("TK_LIST", <<>>)>>), next(next(L)))
         ELSE ConstList(next(L), <<>>)
    ELSE parseConst(L)

\* parseOperatorArguments after '(' when the list is not empty: the loop over
\* the arguments; args is [inputs, attributes].  The tree of the result is
\* the pair of lists.
OperatorArguments(L, inputs, attributes) ==
    IF curKind(L) = "TK_IDENT" /\ lookaheadKind(L) = "="
    THEN Only({IF ~v.ok THEN v
               ELSE IF cur(v.rest) = ","
               THEN OperatorArguments(next(v.rest), inputs,
                        Append(attributes, Compound_create("TK_ATTRIBUTE", <<Compound_create("TK_IDENT", <<String_create(cur(L))>>), v.tree>>)))
               ELSE ThenExpect(
                        Parsed(Compound_create("args", <<Compound_create("TK_LIST", inputs),
                                           Compound_create("TK_LIST", Append(attributes,
                                               Compound_create("TK_ATTRIBUTE", <<Compound_create("TK_IDENT", <<String_create(cur(L))>>), v.tree>>)))>>),
                               v.rest),
                        ")") :
               v \in {parseAttributeValue(next(next(L)))}})
    ELSE Only({IF ~e.ok THEN e
               ELSE IF cur(e.rest) = ","
               THEN OperatorArguments(next(e.rest), Append(inputs, e.tree), attributes)
               ELSE ThenExpect(
                        Parsed(Compound_create("args", <<Compound_create("TK_LIST", Append(inputs, e.tree)),
                                           Compound_create("TK_LIST", attributes)>>), e.rest),
                        ")") :
               e \in {parseExp(L, 0)}})

\* createApply: the Lexer is at '('
createApply(L, expr) ==
    Only({IF ~a.ok THEN a
          ELSE Parsed(Compound_create("TK_APPLY", <<expr, a.tree.trees[1], a.tree.trees[2]>>), a.rest) :
          a \in {IF cur(next(L)) = ")"
                 THEN Parsed(Compound_create("args", <<Compound_create("TK_LIST", <<>>), Compound_create("TK_LIST", <<>>)>>),
                             next(next(L)))
                 ELSE OperatorArguments(next(L), <<>>, <<>>)}})

\* parseSliceOrGather after the ':' : the optional second bound and ']'
SliceSecond(L, value, first) ==
    IF cur(L) # "]"
    THEN Only({IF ~e.ok THEN e
               ELSE ThenExpect(Parsed(Compound_create("TK_SLICE", <<value, first, Compound_create("TK_OPTION", <<e.tree>>)>>),
                                      e.rest), "]") :
               e \in {parseExp(L, 0)}})
    ELSE Parsed(Compound_create("TK_SLICE", <<value, first, Compound_create("TK_OPTION", <<>>)>>), next(L))

parseSliceOrGather_gatherOnly(L, value) ==
    Only({IF ~e.ok THEN e
          ELSE ThenExpect(Parsed(Compound_create("TK_GATHER", <<value, e.tree>>), e.rest), "]") :
          e \in {parseExp(next(L), 0)}})

\* parseSliceOrGather: the Lexer is at '['
parseSliceOrGather(L, value) ==
    IF cur(next(L)) # ":"
    THEN Only({IF ~e.ok THEN e
               ELSE IF cur(e.rest) = "]"
               THEN Parsed(Compound_create("TK_GATHER", <<value, e.tree>>), next(e.rest))
               ELSE IF cur(e.rest) # ":" THEN ErrorReport(":", e.rest)
               ELSE SliceSecond(next(e.rest), value, Compound_create("TK_OPTION", <<e.tree>>)) :
               e \in {parseExp(next(L), 0)}})
    ELSE SliceSecond(next(next(L)), value, Compound_create("TK_OPTION", <<>>))

\* parseBaseExp, the loop over the postfix forms; p is the prefix parsed so far
PostfixLoop(p) ==
    IF ~p.ok THEN p
    ELSE IF cur(p.rest) = "."
    THEN Only({IF ~name.ok THEN name
               ELSE PostfixLoop(Parsed(Compound_create("TK_SELECT", <<p.tree, name.tree>>), name.rest)) :
               name \in {parseIdent(next(p.rest))}})
    ELSE IF cur(p.rest) = "(" THEN PostfixLoop(createApply(p.rest, p.tree))
    ELSE IF cur(p.rest) = "[" THEN PostfixLoop(parseSliceOrGather(p.rest, p.tree))
    ELSE p

\* parseBaseExp
parseBaseExp(L) ==
    PostfixLoop(
        IF curKind(L) \in {"TK_NUMBER", "True", "False"} THEN parseConst(L)
        ELSE IF cur(L) = "(" THEN ThenExpect(parseExp(next(L), 0), ")")
        ELSE IF cur(L) \in {"float", "int", "long"}
        THEN IF cur(next(L)) # "(" THEN ErrorReport("(", next(L))
             ELSE Only({IF ~e.ok THEN e
                        ELSE Parsed(Compound_create("TK_CAST", <<Compound_create(cur(L), <<>>), e.tree>>), e.rest) :
                        e \in {ThenExpect(parseExp(next(next(L)), 0), ")")}})
        ELSE Only({IF ~name.ok THEN name
                   ELSE Parsed(Compound_create("TK_VAR", <<name.tree>>), name.rest) :
                   name \in {parseIdent(L)}}))

parseTrinary_swapped(L, true_branch, prec) ==
    Only({IF ~cond.ok THEN cond
          ELSE Only({IF ~false_branch.ok THEN false_branch
                     ELSE Parsed(Compound_create("TK_IF_EXPR",
                                     <<cond.tree, false_branch.tree, true_branch>>),
                                 false_branch.rest) :
                     false_branch \in {parseExp(cond.rest, prec)}}) :
          cond \in {ThenExpect(parseExp(L, 0), "else")}})

\* parseTrinary: the Lexer is behind 'if'
parseTrinary(L, true_branch, prec) ==
    Only({IF ~cond.ok THEN cond
          ELSE Only({IF ~false_branch.ok THEN false_branch
                     ELSE Parsed(Compound_create("TK_IF_EXPR", <<cond.tree, true_branch, false_branch.tree>>),
                                 false_branch.rest) :
                     false_branch \in {parseExp(cond.rest, prec)}}) :
          cond \in {ThenExpect(parseExp(L, 0), "else")}})

\* parseExp: `if (binary_prec <= precedence) break`
NotGreater_strict(prec, precedence) == prec < precedence

NotGreater(prec, precedence) == prec <= precedence

\* parseExp, the loop over the binary operators; p is the prefix parsed so far
BinaryLoop(p, precedence) ==
    IF ~p.ok THEN p
    ELSE IF ~isBinary(curKind(p.rest)) THEN p
    ELSE IF NotGreater(binary_prec(curKind(p.rest)), precedence) THEN p
    ELSE Only({IF cur(p.rest) = "if"
               THEN BinaryLoop(parseTrinary(next(p.rest), p.tree, prec), precedence)
               ELSE Only({IF ~e.ok THEN e
                          ELSE BinaryLoop(Parsed(Compound_create(cur(p.rest), <<p.tree, e.tree>>), e.rest),
                                          precedence) :
                          e \in {parseExp(next(p.rest), prec)}}) :
               prec \in {IF isRightAssociative(cur(p.rest))
                         THEN binary_prec(cur(p.rest)) - 1
                         ELSE binary_prec(cur(p.rest))}})

\* parseExp(precedence)
parseExp(L, precedence) ==
    BinaryLoop(IF isUnary(curKind(L))
               THEN Only({IF ~e.ok THEN e ELSE Parsed(Compound_create(cur(L), <<e.tree>>), e.rest) :
                          e \in {parseExp(next(L), unary_prec(cur(L)))}})
               ELSE parseBaseExp(L),
               precedence)

(***************************************************************************)
(* Specification SpecParse: a Parser is constructed on a source text and   *)
(* parseExp() is called on it.  The source text is any list of at most     *)
(* MaxTokens tokens of SourceTokens, or two binary operators of the        *)
(* precedence table between three base expressions.                        *)
(***************************************************************************)
MaxTokens == 6

SourceTokens == {"a", "b", "c", "+", "-", "*", "if", "else", "[", "]", ":"}

\* the binary operators of the precedence table ('if' opens the conditional
\* expression)
BinaryOperators == {"and", "or", "<", ">", "==", "<=", ">=", "!=", "+", "-", "*", "/"}

BaseTokens == {"a", "b", "c", "2", "3", "4"}

OperatorSources ==
    {<<x, op1, y, op2, z>> : x \in BaseTokens, op1 \in BinaryOperators, y \in BaseTokens,
                             op2 \in BinaryOperators, z \in BaseTokens}

InitParse ==
    /\ graphs = <<>>
    /\ nodes = <<>>
    /\ tstates = <<>>
    /\ tvars = <<>>
    /\ \/ \E len \in 0..MaxTokens : \E str \in [1..len -> SourceTokens] :
              last = Op("Parser", TRUE, 0, 0, 0, NULL, NULL, str)
       \/ \E str \in OperatorSources :
              last = Op("Parser", TRUE, 0, 0, 0, NULL, NULL, str)
    /\ hist = <<>>
    /\ steps = 0

\* Parser::parseExp(): last.a is its result [ok, tree, rest]
PaParseExp ==
    /\ last.op = "Parser"
    /\ \E r \in {parseExp(last.args, 0)} :
           last' = Op("parseExp", r.ok, 0, 0, 0, r, NULL, last.args)
    /\ UNCHANGED <<graphs, nodes, tstates, tvars, hist, steps>>

NextParse == PaParseExp

SpecParse == InitParse /\ [][NextParse]_vars

\* the tree of a base expression that is a single token
BaseTree(x) == parseBaseExp(<<x>>).tree

\* C18: precedence climbing.  For base expressions x, y, z and binary
\* operators op1, op2 of the precedence table, 'x op1 y op2 z' parses to
\* op1(x, op2(y, z)) when prec(op2) > prec(op1), and to op2(op1(x, y), z)
\* when prec(op1) > prec(op2) or the two (left-associative) operators have
\* equal precedence; the whole text is consumed.
C18_PrecedenceClimbing ==
    (last.op = "parseExp" /\ last.args \in OperatorSources) =>
        /\ last.ok
        /\ last.a.rest = <<>>
        /\ last.a.tree =
             IF binary_prec(last.args[4]) > binary_prec(last.args[2])
             THEN Compound_create(last.args[2],
                      <<BaseTree(last.args[1]),
                        Compound_create(last.args[4],
                            <<BaseTree(last.args[3]), BaseTree(last.args[5])>>)>>)
             ELSE Compound_create(last.args[4],
                      <<Compound_create(last.args[2],
                            <<BaseTree(last.args[1]), BaseTree(last.args[3])>>),
                        BaseTree(last.args[5])>>)

\* '2 + 3 * 4' was parsed: the '*' subtree is the right child of '+'
C18_Witness ==
    /\ last.op = "parseExp"
    /\ last.args = <<"2", "+", "3", "*", "4">>
    /\ last.ok
    /\ last.a.tree.kind = "+"
    /\ last.a.tree.trees[1] = parseConst(<<"2">>).tree
    /\ last.a.tree.trees[2].kind = "*"
    /\ last.a.tree.trees[2].trees = <<parseConst(<<"3">>).tree, parseConst(<<"4">>).tree>>

\* 'a - b + c' was parsed: two operators of equal precedence group to the left
C18_WitnessEqual ==
    /\ last.op = "parseExp"
    /\ last.args = <<"a", "-", "b", "+", "c">>
    /\ last.ok
    /\ last.a.tree.kind = "+"
    /\ last.a.tree.trees[1].kind = "-"

\* the tokens of SourceTokens that are base expressions
BaseIdents == SourceTokens \cap IdentTexts

\* the tokens of SourceTokens that neither continue an expression nor are
\* 'else'
NoContinuation == BaseIdents \cup {"]", ":"}

\* C19: ternary parsing.  'x if y else z' parses to a single TK_IF_EXPR node
\* whose subtrees are the condition y, the true branch x and the false branch
\* z, and '- x if y else z' to one whose true branch is the whole '- x'; when
\* the token behind the condition of 'x if y' is not 'else' (the end of the
\* text, or a token that does not continue the condition) the parse fails
\* with the error of expect(TK_ELSE).
C19_Ternary ==
    last.op = "parseExp" =>
        /\ (/\ Len(last.args) = 5
            /\ last.args[1] \in BaseIdents /\ last.args[2] = "if"
            /\ last.args[3] \in BaseIdents /\ last.args[4] = "else"
            /\ last.args[5] \in BaseIdents) =>
              /\ last.ok
              /\ last.a.rest = <<>>
              /\ last.a.tree = Compound_create("TK_IF_EXPR",
                                   <<BaseTree(last.args[3]), BaseTree(last.args[1]),
                                     BaseTree(last.args[5])>>)
        /\ (/\ Len(last.args) = 6
            /\ last.args[1] = "-"
            /\ last.args[2] \in BaseIdents /\ last.args[3] = "if"
            /\ last.args[4] \in BaseIdents /\ last.args[5] = "else"
            /\ last.args[6] \in BaseIdents) =>
              /\ last.ok
              /\ last.a.rest = <<>>
              /\ last.a.tree = Compound_create("TK_IF_EXPR",
                                   <<BaseTree(last.args[4]),
                                     Compound_create("-", <<BaseTree(last.args[2])>>),
                                     BaseTree(last.args[6])>>)
        /\ (/\ Len(last.args) >= 3
            /\ last.args[1] \in BaseIdents /\ last.args[2] = "if"
            /\ last.args[3] \in BaseIdents
            /\ Len(last.args) > 3 => last.args[4] \in NoContinuation) =>
              /\ ~last.ok
              /\ last.a.tree = Compound_create("error", <<"else">>)
              /\ last.a.rest = SubSeq(last.args, 4, Len(last.args))

\* 'a if b else c' was parsed to the conditional expression of condition b,
\* true branch a and false branch c
C19_Witness ==
    /\ last.op = "parseExp"
    /\ last.args = <<"a", "if", "b", "else", "c">>
    /\ last.ok
    /\ last.a.tree.kind = "TK_IF_EXPR"
    /\ last.a.tree.trees = <<parseBaseExp(<<"b">>).tree, parseBaseExp(<<"a">>).tree,
                             parseBaseExp(<<"c">>).tree>>

\* 'a if b' was rejected: 'else' was expected at the end of the text
C19_WitnessNoElse ==
    /\ last.op = "parseExp"
    /\ last.args = <<"a", "if", "b">>
    /\ ~last.ok
    /\ last.a.tree.trees = <<"else">>

\* TK_OPTION over a written bound, and over a bound that is not written
Some(e) == Compound_create("TK_OPTION", <<BaseTree(e)>>)

Absent == Compound_create("TK_OPTION", <<>>)

\* the node of the tree that was built over the base expression x: the node
\* whose first subtree (the true branch, under a conditional expression) is x
RECURSIVE SubscriptNode(_, _)
SubscriptNode(tree, x) ==
    IF tree.kind \in {"TK_STRING", "TK_NUMBER"} \/ tree.trees = <<>> THEN Absent
    ELSE IF tree.kind = "TK_IF_EXPR"
    THEN IF tree.trees[2] = x THEN tree ELSE SubscriptNode(tree.trees[2], x)
    ELSE IF tree.trees[1] = x THEN tree
    ELSE SubscriptNode(tree.trees[1], x)

\* C20: subscript disambiguation.  With x, e, e1, e2 identifiers: 'x[e]'
\* parses to the gather of x at e; 'x[e:]', 'x[:e]', 'x[e1:e2]' and 'x[:]'
\* parse to the slice of x whose start and stop bounds are present exactly
\* when written; 'x[]' is rejected; and behind 'x[' followed by a first
\* expression e, whatever it is, the token ']' gives the gather of x
\* at e, the token ':' the slice of x from e, and any other token a parse
\* error.
C20_Subscript ==
    (/\ last.op = "parseExp"
     /\ Len(last.args) >= 3
     /\ last.args[1] \in BaseIdents
     /\ last.args[2] = "[") =>
        LET x == BaseTree(last.args[1])
            n == Len(last.args)
        IN  /\ (n = 4 /\ last.args[3] \in BaseIdents /\ last.args[4] = "]") =>
                  /\ last.ok
                  /\ last.a.tree = Compound_create("TK_GATHER", <<x, BaseTree(last.args[3])>>)
            /\ (n = 5 /\ last.args[3] \in BaseIdents /\ last.args[4] = ":"
                      /\ last.args[5] = "]") =>
                  /\ last.ok
                  /\ last.a.tree = Compound_create("TK_SLICE", <<x, Some(last.args[3]), Absent>>)
            /\ (n = 5 /\ last.args[3] = ":" /\ last.args[4] \in BaseIdents
                      /\ last.args[5] = "]") =>
                  /\ last.ok
                  /\ last.a.tree = Compound_create("TK_SLICE", <<x, Absent, Some(last.args[4])>>)
            /\ (n = 6 /\ last.args[3] \in BaseIdents /\ last.args[4] = ":"
                      /\ last.args[5] \in BaseIdents /\ last.args[6] = "]") =>
                  /\ last.ok
                  /\ last.a.tree = Compound_create("TK_SLICE",
                                       <<x, Some(last.args[3]), Some(last.args[5])>>)
            /\ (n = 4 /\ last.args[3] = ":" /\ last.args[4] = "]") =>
                  /\ last.ok
                  /\ last.a.tree = Compound_create("TK_SLICE", <<x, Absent, Absent>>)
            /\ last.args[3] = "]" => ~last.ok
            /\ last.args[3] # ":" =>
                  \A e \in {parseExp(SubSeq(last.args, 3, n), 0)} :
                      /\ ~e.ok => (~last.ok /\ last.a.tree = e.tree)
                      /\ (e.ok /\ cur(e.rest) = "]" /\ last.ok) =>
                            SubscriptNode(last.a.tree, x)
                               = Compound_create("TK_GATHER", <<x, e.tree>>)
                      /\ (e.ok /\ cur(e.rest) = ":" /\ last.ok) =>
                            /\ SubscriptNode(last.a.tree, x).kind = "TK_SLICE"
                            /\ SubscriptNode(last.a.tree, x).trees[2]
                                  = Compound_create("TK_OPTION", <<e.tree>>)
                      /\ (e.ok /\ cur(e.rest) \notin {"]", ":"}) =>
                            /\ ~last.ok
                            /\ last.a.tree = Compound_create("error", <<":">>)
                            /\ last.a.rest = e.rest

\* 'a[b:c]' was parsed to the slice of a from b to c
C20_Witness ==
    /\ last.op = "parseExp"
    /\ last.args = <<"a", "[", "b", ":", "c", "]">>
    /\ last.ok
    /\ last.a.tree.kind = "TK_SLICE"
    /\ last.a.tree.trees = <<parseBaseExp(<<"a">>).tree, Some("b"), Some("c")>>

\* 'a[b]' was parsed to the gather of a at b
C20_WitnessGather ==
    /\ last.op = "parseExp"
    /\ last.args = <<"a", "[", "b", "]">>
    /\ last.ok
    /\ last.a.tree.kind = "TK_GATHER"
    /\ last.a.tree.trees = <<parseBaseExp(<<"a">>).tree, parseBaseExp(<<"b">>).tree>>

\* 'a[]' was rejected
C20_WitnessEmpty ==
    /\ last.op = "parseExp"
    /\ last.args = <<"a", "[", "]">>
    /\ ~last.ok

(***************************************************************************)
(* The statements of the script parser (parser.h).  The Lexer's layout     *)
(* tokens are "TK_NEWLINE", "TK_INDENT" and "TK_DEDENT".                   *)
(***************************************************************************)
\* expectEndOfLine after a parse function: a TK_DEDENT is left in place, any
\* other token must be TK_NEWLINE and is consumed
expectEndOfLine(r) ==
    IF ~r.ok THEN r
    ELSE IF curKind(r.rest) # "TK_DEDENT" THEN ThenExpect(r, "TK_NEWLINE")
    ELSE r

isEndOfLine(L) == curKind(L) \in {"TK_NEWLINE", "TK_DEDENT"}

\* L.next().text()[0] of the tokens TK_PLUS_EQ, TK_MINUS_EQ, TK_TIMES_EQ, TK_DIV_EQ
ReductionModifier(tok) ==
    CASE tok = "+=" -> "+"
      [] tok = "-=" -> "-"
      [] tok = "*=" -> "*"
      [] tok = "/=" -> "/"

parseOptionalReduction(L) ==
    IF cur(L) \in {"+=", "-=", "*=", "/="}
    THEN Parsed(Compound_create(ReductionModifier(cur(L)), <<>>), next(L))
    ELSE IF cur(L) = "=" THEN Parsed(Compound_create("=", <<>>), next(L))
    ELSE ErrorReport("=", L)

\* parseList(TK_NOTHING, ',', TK_NOTHING, &Parser::parseIdent): no token has
\* the kind TK_NOTHING, so that one element at least is parsed
RECURSIVE IdentList(_, _)
IdentList(L, elements) ==
    Only({IF ~e.ok THEN e
          ELSE IF cur(e.rest) = "," THEN IdentList(next(e.rest), Append(elements, e.tree))
          ELSE Parsed(Compound_create("TK_LIST", Append(elements, e.tree)), e.rest) :
          e \in {parseIdent(L)}})

\* parseList(TK_NOTHING, ',', TK_NOTHING, &Parser::parseExp)
RECURSIVE ExpList(_, _)
ExpList(L, elements) ==
    Only({IF ~e.ok THEN e
          ELSE IF cur(e.rest) = "," THEN ExpList(next(e.rest), Append(elements, e.tree))
          ELSE Parsed(Compound_create("TK_LIST", Append(elements, e.tree)), e.rest) :
          e \in {parseExp(L, 0)}})

\* parseOneOrMoreIdents(first): the Lexer is behind first
RECURSIVE parseOneOrMoreIdents(_, _)
parseOneOrMoreIdents(L, idents) ==
    IF cur(L) # "," THEN Parsed(Compound_create("TK_LIST", idents), L)
    ELSE Only({IF ~e.ok THEN e ELSE parseOneOrMoreIdents(e.rest, Append(idents, e.tree)) :
               e \in {parseIdent(next(L))}})

\* parseAssign(first): the Lexer is behind first
parseAssign(L, first) ==
    Only({IF ~list.ok THEN list
          ELSE Only({IF ~red.ok THEN red
                     ELSE Only({IF ~rhs.ok THEN rhs
                                ELSE expectEndOfLine(
                                         Parsed(Compound_create("TK_ASSIGN",
                                                    <<list.tree, red.tree, rhs.tree>>),
                                                rhs.rest)) :
                                rhs \in {parseExp(red.rest, 0)}}) :
                     red \in {parseOptionalReduction(list.rest)}}) :
          list \in {parseOneOrMoreIdents(L, <<first>>)}})

RECURSIVE parseStmt(_)
RECURSIVE parseIf(_)
RECURSIVE parseWhile(_)
RECURSIVE parseStatements(_)
RECURSIVE StatementsLoop(_, _)

\* parseStatements behind TK_INDENT: statements up to the TK_DEDENT that
\* closes the block, which is consumed
StatementsLoop(L, stmts) ==
    Only({IF ~st.ok THEN st
          ELSE IF curKind(st.rest) = "TK_DEDENT"
          THEN Parsed(Compound_create("TK_LIST", Append(stmts, st.tree)), next(st.rest))
          ELSE StatementsLoop(st.rest, Append(stmts, st.tree)) :
          st \in {parseStmt(L)}})

parseStatements(L) ==
    IF curKind(L) # "TK_INDENT" THEN ErrorReport("TK_INDENT", L)
    ELSE StatementsLoop(next(L), <<>>)

\* parseIf: the Lexer is at TK_IF
parseIf(L) ==
    Only({IF ~cond.ok THEN cond
          ELSE Only({IF ~true_branch.ok THEN true_branch
                     ELSE IF cur(true_branch.rest) # "else"
                     THEN Parsed(Compound_create("TK_IF",
                                     <<cond.tree, true_branch.tree,
                                       Compound_create("TK_LIST", <<>>)>>),
                                 true_branch.rest)
                     ELSE IF cur(next(true_branch.rest)) # ":"
                     THEN ErrorReport(":", next(true_branch.rest))
                     ELSE Only({IF ~false_branch.ok THEN false_branch
                                ELSE Parsed(Compound_create("TK_IF",
                                                <<cond.tree, true_branch.tree,
                                                  false_branch.tree>>),
                                            false_branch.rest) :
                                false_branch \in
                                    {parseStatements(next(next(true_branch.rest)))}}) :
                     true_branch \in {parseStatements(cond.rest)}}) :
          cond \in {ThenExpect(parseExp(next(L), 0), ":")}})

\* parseWhile: the Lexer is at TK_WHILE
parseWhile(L) ==
    Only({IF ~cond.ok THEN cond
          ELSE Only({IF ~body.ok THEN body
                     ELSE Parsed(Compound_create("TK_WHILE", <<cond.tree, body.tree>>),
                                 body.rest) :
                     body \in {parseStatements(cond.rest)}}) :
          cond \in {ThenExpect(parseExp(next(L), 0), ":")}})

\* parseStmt
parseStmt(L) ==
    IF cur(L) = "if" THEN parseIf(L)
    ELSE IF cur(L) = "while" THEN parseWhile(L)
    ELSE IF cur(L) = "global"
    THEN Only({IF ~idents.ok THEN idents
               ELSE Parsed(Compound_create("TK_GLOBAL", <<idents.tree>>), idents.rest) :
               idents \in {IdentList(next(L), <<>>)}})
    ELSE IF cur(L) = "return"
    THEN Only({IF ~values.ok THEN values
               ELSE Parsed(Compound_create("TK_RETURN", <<values.tree>>), values.rest) :
               values \in {ExpList(next(L), <<>>)}})
    ELSE Only({IF ~e.ok THEN e
               ELSE IF e.tree.kind = "TK_VAR" /\ ~isEndOfLine(e.rest)
               THEN parseAssign(e.rest, e.tree.trees[1])
               ELSE expectEndOfLine(
                        Parsed(Compound_create("TK_EXPR_STMT", <<e.tree>>), e.rest)) :
               e \in {parseExp(L, 0)}})

(***************************************************************************)
(* Specification SpecStmt: a Parser is constructed on a source text and    *)
(* parseStmt() or parseConst() is called on it.  The source text is any    *)
(* list of at most MaxStmtTokens tokens of StmtTokens, an if or while      *)
(* statement over a short block, or a short list of the tokens of numeric  *)
(* and boolean literals.                                                    *)
(***************************************************************************)
MaxStmtTokens == 5

MaxBlockTokens == 3

MaxConstTokens == 3

StmtTokens == {"a", "b", "global", "return", "=", "+=", ",", "+", "TK_NEWLINE", "TK_DEDENT"}

BlockTokens == {"a", "b", "=", "return", "TK_NEWLINE"}

ConstTokens == {"-", "2", "1.5", "f", "LL", "c", "True", "False"}

ElseBlocks == {<<>>, <<"else", ":", "TK_INDENT", "b", "TK_DEDENT">>, <<"else", "b">>}

Trailers == {<<>>, <<"TK_NEWLINE">>, <<"a">>, <<"TK_DEDENT">>}

InitStmt ==
    /\ graphs = <<>>
    /\ nodes = <<>>
    /\ tstates = <<>>
    /\ tvars = <<>>
    /\ \/ \E len \in 0..MaxStmtTokens : \E str \in [1..len -> StmtTokens] :
              last = Op("Parser", TRUE, 0, 0, 0, NULL, NULL, str)
       \/ \E kw \in {"if", "while"}, len \in 1..MaxBlockTokens, closed \in BOOLEAN,
             els \in ElseBlocks, trailer \in Trailers :
              \E block \in [1..len -> BlockTokens] :
                  last = Op("Parser", TRUE, 0, 0, 0, NULL, NULL,
                            <<kw, "a", ":", "TK_INDENT">> \o block
                              \o (IF closed THEN <<"TK_DEDENT">> ELSE <<>>) \o els \o trailer)
       \/ \E len \in 0..MaxConstTokens : \E str \in [1..len -> ConstTokens] :
              last = Op("Parser", TRUE, 0, 0, 0, NULL, NULL, str)
    /\ hist = <<>>
    /\ steps = 0

\* Parser::parseStmt(): last.a is its result [ok, tree, rest]
PaParseStmt ==
    /\ last.op = "Parser"
    /\ \E r \in {parseStmt(last.args)} :
           last' = Op("parseStmt", r.ok, 0, 0, 0, r, NULL, last.args)
    /\ UNCHANGED <<graphs, nodes, tstates, tvars, hist, steps>>

\* Parser::parseConst(): last.a is its result [ok, tree, rest]
PaParseConst ==
    /\ last.op = "Parser"
    /\ \E r \in {parseConst(last.args)} :
           last' = Op("parseConst", r.ok, 0, 0, 0, r, NULL, last.args)
    /\ UNCHANGED <<graphs, nodes, tstates, tvars, hist, steps>>

NextStmt == PaParseStmt \/ PaParseConst

SpecStmt == InitStmt /\ [][NextStmt]_vars

\* the number of tokens that the last parse function consumed
Consumed == Len(last.args) - Len(last.a.rest)

\* the last parse function ended in an end-of-line check: it consumed a
\* TK_NEWLINE last, or it stopped at a TK_DEDENT
EndedLine ==
    \/ last.args[Consumed] = "TK_NEWLINE"
    \/ curKind(last.a.rest) = "TK_DEDENT"

\* C21: statement termination.  A global, return, expression statement or
\* assignment that was parsed ended in an end-of-line check (an explicit
\* TK_NEWLINE was consumed, or a TK_DEDENT was reached and left in place);
\* an if or while statement that was parsed consumed the TK_DEDENT of its
\* block last.
C21_EndOfLine ==
    (last.op = "parseStmt" /\ last.ok) =>
        IF last.args[1] \in {"if", "while"}
        THEN last.args[Consumed] = "TK_DEDENT"
        ELSE EndedLine

\* C21 for the statements that call expectEndOfLine: expression statements
\* and assignments end in the end-of-line check, if and while statements in
\* the TK_DEDENT of their block
C21_EndOfLineExprAssign ==
    (last.op = "parseStmt" /\ last.ok /\ last.args[1] \notin {"global", "return"}) =>
        IF last.args[1] \in {"if", "while"}
        THEN last.args[Consumed] = "TK_DEDENT"
        ELSE EndedLine

\* 'return a' followed by a TK_NEWLINE was parsed, the TK_NEWLINE was not consumed
C21_Witness ==
    /\ last.op = "parseStmt"
    /\ last.args = <<"return", "a", "TK_NEWLINE">>
    /\ last.ok
    /\ last.a.rest = <<"TK_NEWLINE">>

\* 'global a' followed by another statement was parsed as if the text ended
\* behind a
C21_WitnessGlobal ==
    /\ last.op = "parseStmt"
    /\ last.args = <<"global", "a", "b", "=", "a">>
    /\ last.ok
    /\ last.a.rest = <<"b", "=", "a">>

\* an assignment was parsed up to the TK_DEDENT, which was left in place
C21_WitnessAssign ==
    /\ last.op = "parseStmt"
    /\ last.args = <<"a", "=", "b", "TK_DEDENT">>
    /\ last.ok
    /\ last.a.tree.kind = "TK_ASSIGN"
    /\ last.a.rest = <<"TK_DEDENT">>

\* a while statement was parsed
C21_WitnessWhile ==
    /\ last.op = "parseStmt"
    /\ last.ok
    /\ last.a.tree.kind = "TK_WHILE"
    /\ last.a.rest = <<"a">>

\* the numeric literals of ConstTokens and the identifiers that may follow
NumberLiterals == {"2", "1.5"}

SuffixIdents == {"f", "LL", "c"}

\* C22: literal typing.  A numeric literal that no identifier follows is
\* tagged 'f' when its text has a decimal point ("1.5") and 'i' otherwise
\* ("2"); a following identifier 'f' or 'LL' is consumed and is the tag,
\* whatever the text; any other following identifier is a parse error;
\* 'True' and 'False' are the constants 1 and 0 tagged 'b'.
C22_LiteralTyping ==
    (last.op = "parseConst" /\ last.args # <<>>) =>
        LET text == last.args[1]
            n == Len(last.args)
        IN  /\ (text \in NumberLiterals /\ (n = 1 \/ last.args[2] \notin SuffixIdents)) =>
                  /\ last.ok
                  /\ last.a.tree = Compound_create("TK_CONST",
                         <<Number_create("+", text),
                           String_create(IF text = "1.5" THEN "f" ELSE "i")>>)
                  /\ last.a.rest = Tail(last.args)
            /\ (text \in NumberLiterals /\ n >= 2 /\ last.args[2] \in {"f", "LL"}) =>
                  /\ last.ok
                  /\ last.a.tree = Compound_create("TK_CONST",
                         <<Number_create("+", text), String_create(last.args[2])>>)
                  /\ last.a.rest = Tail(Tail(last.args))
            /\ (text \in NumberLiterals /\ n >= 2 /\ last.args[2] = "c") => ~last.ok
            /\ text = "True" =>
                  /\ last.ok
                  /\ last.a.tree = Compound_create("TK_CONST",
                         <<Number_create("+", "1"), String_create("b")>>)
                  /\ last.a.rest = Tail(last.args)
            /\ text = "False" =>
                  /\ last.ok
                  /\ last.a.tree = Compound_create("TK_CONST",
                         <<Number_create("+", "0"), String_create("b")>>)
                  /\ last.a.rest = Tail(last.args)

\* '1.5' alone was parsed and tagged 'f'
C22_Witness ==
    /\ last.op = "parseConst"
    /\ last.args = <<"1.5">>
    /\ last.ok
    /\ last.a.tree.trees[2] = String_create("f")

\* '1.5 LL' was parsed and tagged 'LL'
C22_WitnessSuffix ==
    /\ last.op = "parseConst"
    /\ last.args = <<"1.5", "LL">>
    /\ last.ok
    /\ last.a.tree.trees[2] = String_create("LL")
    /\ last.a.rest = <<>>

\* '2 c' was rejected
C22_WitnessBadSuffix ==
    /\ last.op = "parseConst"
    /\ last.args = <<"2", "c">>
    /\ ~last.ok

(***************************************************************************)
(* Specification SpecONNX: a complete trace is built step by step in the   *)
(* graph of one TracingState (trace inputs, then recorded nodes, then      *)
(* outputs), and ToONNX is run on it with every answer of the rewrite      *)
(* hooks.                                                                  *)
(***************************************************************************)
MaxONNXInputs == 1

MaxONNXNodes == 2

MaxONNXNodeInputs == 1

MaxONNXOutputs == 2

MaxStage == 1

\* the nodes a trace records: [kind, nOut, handle, sym].  A handle is the
\* trailing output of a C++ or Python op; sym tells whether the payload of a
\* Python op has a `symbolic` attribute.
RecordedNodes ==
    {[kind |-> "add", nOut |-> k, handle |-> FALSE, sym |-> FALSE] : k \in OutCounts}
    \cup {[kind |-> "CppOp", nOut |-> 2, handle |-> TRUE, sym |-> FALSE]}
    \cup {[kind |-> "PythonOp", nOut |-> 2, handle |-> h, sym |-> y] : h, y \in BOOLEAN}
    \cup {[kind |-> "Undefined", nOut |-> 1, handle |-> FALSE, sym |-> FALSE]}

InitONNX ==
    /\ graphs = <<EmptyGraph>>
    /\ nodes = <<>>
    /\ tstates = <<NewTracingState(1)>>
    /\ tvars = <<>>
    /\ last = NoOp
    /\ hist = <<>>
    /\ steps = 0

ONNXCommit(W, op) ==
    /\ graphs' = W.graphs
    /\ nodes' = W.nodes
    /\ tstates' = W.tstates
    /\ last' = op
    /\ UNCHANGED <<tvars, hist, steps>>

\* Graph::advanceStage
OnAdvanceStage ==
    /\ last.op = "init"
    /\ tstates[1].graph = 1
    /\ graphs[1].ins = <<>>
    /\ graphs[1].stage < MaxStage
    /\ ONNXCommit([World EXCEPT !.graphs[1].stage = @ + 1], last)

\* a trace input of enter: a Variable or a buffer
OnAddInput ==
    /\ last.op = "init"
    /\ tstates[1].graph = 1
    /\ nodes = <<>>
    /\ Len(graphs[1].ins) < MaxONNXInputs
    /\ \/ ONNXCommit(Graph_addInput(World, 1), last)
       \/ \E d \in Buffers : ONNXCommit(EnterBuffer(World, 1, d), last)

\* a recorded node
OnRecord ==
    /\ last.op = "init"
    /\ tstates[1].graph = 1
    /\ graphs[1].outputs = <<>>
    /\ Len(graphs[1].order) < MaxONNXNodes
    /\ \E rec \in RecordedNodes :
       \E inputs \in SeqsUpTo(ValuesOfGraph(World, 1), MaxONNXNodeInputs) :
           /\ rec.kind = "Undefined" => inputs = <<>>
           /\ ONNXCommit(Graph_appendNode(
                             AddInputs([Graph_create(World, 1, rec.kind, rec.nOut)
                                           EXCEPT !.nodes[NextNode(World)].handle = rec.handle,
                                                  !.nodes[NextNode(World)].sym = rec.sym],
                                       NextNode(World), inputs),
                             NextNode(World)),
                         last)

\* an output of the trace, registered by exit
OnRegisterOutput ==
    /\ last.op = "init"
    /\ tstates[1].graph = 1
    /\ Len(graphs[1].outputs) < MaxONNXOutputs
    /\ \E v \in ValuesOfGraph(World, 1) :
           /\ v[2] # 0 => ~(nodes[v[2]].handle /\ v[3] = Len(nodes[v[2]].outs))
           /\ ONNXCommit(Graph_registerOutput(World, 1, v), last)

\* the TracingState expires: its graph is released
OnExpire ==
    /\ last.op = "init"
    /\ tstates[1].graph = 1
    /\ graphs[1].outputs # <<>>
    /\ ONNXCommit([World EXCEPT !.tstates[1].graph = 0], last)

\* ToONNX(state): last.i is the graph of the state before the call, last.a
\* the calls made, last.args the error and the answers of the hooks
OnToONNX ==
    /\ last.op = "init"
    /\ \E choices \in [IF tstates[1].graph = 0 THEN {}
                       ELSE HookNodes(World, tstates[1].graph) -> HookResults] :
       \E r \in {ToONNX(World, 1, choices)} :
           ONNXCommit(r.w, Op("ToONNX", r.ok, 1, 0, tstates[1].graph, r.calls, NULL,
                              <<r.err, choices>>))

NextONNX ==
    \/ OnAdvanceStage
    \/ OnAddInput
    \/ OnRecord
    \/ OnRegisterOutput
    \/ OnExpire
    \/ OnToONNX

SpecONNX == InitONNX /\ [][NextONNX]_vars

\* the calls ToONNX made for node n, in order
RECURSIVE CallsOf(_, _)
CallsOf(calls, n) ==
    IF calls = <<>> THEN <<>>
    ELSE IF Head(calls)[1] = n THEN <<Head(calls)[2]>> \o CallsOf(Tail(calls), n)
    ELSE CallsOf(Tail(calls), n)

\* the clone ToONNX made of node n, 0 when it made none
CloneOf(calls, n) ==
    IF \E k \in DOMAIN calls : calls[k][1] = n /\ calls[k][2] = "clone"
    THEN (CHOOSE c \in SeqToSet(calls) : c[1] = n /\ c[2] = "clone")[3][1][2]
    ELSE 0

\* the hook called on node n answered none
YieldsNone(n) ==
    \/ last.args[2][n] = "none"
    \/ last.args[2][n] = "pass" /\ nodes[n].inputs = <<>>

\* node m is the structural clone of node n in graph ng: same kind, same
\* number of outputs, and each input the Value the producer of n's input was
\* mapped to, a Value that precedes m in ng
IsCloneOf(m, n, ng) ==
    /\ m # 0
    /\ nodes[m].g = ng
    /\ nodes[m].kind = nodes[n].kind
    /\ Len(nodes[m].outs) = Len(nodes[n].outs)
    /\ Len(nodes[m].inputs) = Len(nodes[n].inputs)
    /\ \A k \in DOMAIN nodes[n].inputs :
        LET old == nodes[n].inputs[k]
            new == nodes[m].inputs[k]
        IN  /\ new[1] = ng
            /\ new[2] # 0 =>
                 FirstIndex(graphs[ng].order, new[2]) \in 1..(FirstIndex(graphs[ng].order, m) - 1)
            /\ old[2] = 0 => new = <<ng, 0, old[3]>>
            /\ (old[2] # 0 /\ CloneOf(last.a, old[2]) # 0) =>
                 new = <<ng, CloneOf(last.a, old[2]), old[3]>>

\* C23 (as stated): per-node rewrite hook order and fallback.  For each node
\* of the traced graph that ToONNX converted, a hook is attempted before any
\* cloning: the method-level hook first when the node's payload has a
\* `symbolic` attribute, the function-level hook otherwise; and the node is
\* cloned exactly when the hook yields none.
C23_HookOrder ==
    (last.op = "ToONNX" /\ last.ok) =>
        \A n \in SeqToSet(graphs[last.i].order) :
            /\ CallsOf(last.a, n) # <<>>
            /\ CallsOf(last.a, n)[1] =
                 (IF nodes[n].kind = "PythonOp" /\ nodes[n].sym THEN "method" ELSE "function")
            /\ (CloneOf(last.a, n) # 0) <=> YieldsNone(n)

\* C23 (amended): a node with a used handle output, a C++ op, an Undefined
\* node and a Python op whose payload has no `symbolic` attribute are cloned
\* without any hook; a Python op with the attribute gets the method-level
\* hook only, every other node the function-level hook only; when the hook
\* yields none, and only then, the node is cloned after it.  Every clone has
\* the kind and the output count of its node and the inputs remapped to
\* Values that are already in the new graph.
C23_HookDispatch ==
    (last.op = "ToONNX" /\ last.ok) =>
        \A n \in SeqToSet(graphs[last.i].order) :
            /\ CallsOf(last.a, n) =
                 IF ClonedOnly(World, n) THEN <<"clone">>
                 ELSE <<IF nodes[n].kind = "PythonOp" THEN "method" ELSE "function">>
                        \o (IF YieldsNone(n) THEN <<"clone">> ELSE <<>>)
            /\ CloneOf(last.a, n) # 0 => IsCloneOf(CloneOf(last.a, n), n, tstates[last.s].graph)

\* ToONNX converted a graph in which the function-level hook yielded none for
\* a node that consumes the output of another node, and cloned it
C23_Witness ==
    /\ last.op = "ToONNX"
    /\ last.ok
    /\ \E n \in SeqToSet(graphs[last.i].order) :
        /\ CallsOf(last.a, n) = <<"function", "clone">>
        /\ nodes[n].inputs # <<>>
        /\ nodes[n].inputs[1][2] # 0

\* ToONNX cloned a Python op that has no `symbolic` attribute without
\* calling a hook
C23_WitnessNoHook ==
    /\ last.op = "ToONNX"
    /\ last.ok
    /\ \E n \in SeqToSet(graphs[last.i].order) :
        /\ nodes[n].kind = "PythonOp"
        /\ ~nodes[n].sym
        /\ CallsOf(last.a, n) = <<"clone">>

\* the method-level hook yielded none and the Python op was cloned
C23_WitnessMethod ==
    /\ last.op = "ToONNX"
    /\ last.ok
    /\ \E n \in SeqToSet(graphs[last.i].order) :
        CallsOf(last.a, n) = <<"method", "clone">>

\* the calls of a hook that answered with a list of outputs
HookAnswers ==
    {e \in SeqToSet(last.a) : e[2] \in {"method", "function"} /\ ~YieldsNone(e[1])}

\* the new node a hook answering "op" created for node m, 0 when there is none
OpNodeOf(m) ==
    IF \E e \in HookAnswers : e[1] = m /\ last.args[2][m] = "op"
    THEN (CHOOSE e \in HookAnswers : e[1] = m)[3][1][2]
    ELSE 0

\* C24: rewrite-hook arity.  When a hook returns a list whose length differs
\* from the node's number of outputs, not counting a trailing handle output,
\* ToONNX fails with an error that names the operator, the expected and the
\* actual count.  When ToONNX succeeds, the lengths agree and output i of the
\* node is the returned element i for every later consumer: at the same
\* input position of the consumer's clone, of the node the consumer's hook
\* created, and at the same position of the graph's outputs.
C24_HookArity ==
    last.op = "ToONNX" =>
        \A e \in HookAnswers :
            LET n == e[1]
                g == last.i
                ng == tstates[last.s].graph
            IN  /\ Len(e[3]) # NumOldOutputs(World, n) =>
                     /\ ~last.ok
                     /\ last.args[1] = <<"symbolic produced an incorrect number of outputs",
                                         nodes[n].kind, NumOldOutputs(World, n), Len(e[3])>>
                /\ last.ok =>
                     /\ Len(e[3]) = NumOldOutputs(World, n)
                     /\ \A m \in SeqToSet(graphs[g].order) : \A k \in DOMAIN nodes[m].inputs :
                          nodes[m].inputs[k][2] = n =>
                            /\ CloneOf(last.a, m) # 0 =>
                                 nodes[CloneOf(last.a, m)].inputs[k] = e[3][nodes[m].inputs[k][3]]
                            /\ OpNodeOf(m) # 0 =>
                                 nodes[OpNodeOf(m)].inputs[k] = e[3][nodes[m].inputs[k][3]]
                     /\ \A q \in DOMAIN graphs[g].outputs :
                          graphs[g].outputs[q][2] = n =>
                            graphs[ng].outputs[q] = e[3][graphs[g].outputs[q][3]]

\* a hook returned one output too many for a node with a trailing handle
\* output, and ToONNX failed
C24_Witness ==
    /\ last.op = "ToONNX"
    /\ ~last.ok
    /\ \E e \in HookAnswers :
        /\ nodes[e[1]].handle
        /\ Len(e[3]) = Len(nodes[e[1]].outs)
        /\ last.args[1][3] = Len(nodes[e[1]].outs) - 1

\* the hook created a node for a node with two outputs, the second of which
\* a cloned node consumes
C24_WitnessAgree ==
    /\ last.op = "ToONNX"
    /\ last.ok
    /\ \E e \in HookAnswers : \E m \in SeqToSet(graphs[last.i].order) :
        /\ Len(e[3]) = 2
        /\ nodes[m].inputs = <<<<last.i, e[1], 2>>>>
        /\ CloneOf(last.a, m) # 0
        /\ nodes[CloneOf(last.a, m)].inputs = <<e[3][2]>>

\* C25: prefix state on a failed exit.  When exit(outputs) fails at output
\* index i for lack of an association, the graph's output list is the one
\* before the call followed by the Values of outputs 0..i-1, every node that
\* existed is unchanged and still at its place in the node order, the
\* TracingState is still active, its input list is the one before the call
\* and the backward-capture hook has not been called.
C25_PrefixState ==
    [][(last'.op = "exit" /\ ~last'.ok /\ last'.i >= 0) =>
        LET s    == last'.s
            outs == last'.args
            g    == tstates[s].graph
            old  == graphs[g].outputs
            new  == graphs'[g].outputs
        IN  /\ Len(new) = Len(old) + last'.i
            /\ new = old \o SubSeq(new, Len(old) + 1, Len(old) + last'.i)
            /\ \A j \in 1..last'.i :
                IF tvars[outs[j]].defined
                THEN new[Len(old) + j] = RecordedValue(World, s, outs[j])
                ELSE /\ new[Len(old) + j][2] \notin DOMAIN nodes
                     /\ nodes'[new[Len(old) + j][2]].kind = "Undefined"
            /\ SubSeq(nodes', 1, Len(nodes)) = nodes
            /\ SubSeq(graphs'[g].order, 1, Len(graphs[g].order)) = graphs[g].order
            /\ tstates[s].active
            /\ tstates'[s].active
            /\ tstates'[s].graph = g
            /\ tstates'[s].inputs = tstates[s].inputs
            /\ tstates'[s].hook = tstates[s].hook
            /\ ~tstates'[s].hook.called
      ]_vars

\* exit failed on its second output: the first output is registered, the
\* state is active and still has the input list of enter
C25_Witness ==
    /\ last.op = "exit"
    /\ ~last.ok
    /\ last.i = 1
    /\ Len(graphs[tstates[last.s].graph].outputs) = 1
    /\ tstates[last.s].active
    /\ tstates[last.s].inputs # <<>>
    /\ ~tstates[last.s].hook.called

\* C26: builder scalar constants never become graph inputs.  'x + scalar'
\* and 'x * scalar' add no input to the graph and append
\* exactly one node, whose only input is x and whose tensor attribute 'other'
\* holds the scalar; the result is the output of that node.  The exception is
\* 'x * 1' (the integer 1 or the floating-point 1.0), which changes nothing
\* and returns x.
C26_ScalarConstants ==
    [][last'.op \in {"operator*", "operator+"} =>
        LET x   == last'.a
            rhs == last'.args[1]
            n   == Len(nodes) + 1
        IN  /\ \A g \in DOMAIN graphs : Len(graphs'[g].ins) = Len(graphs[g].ins)
            /\ IF last'.op = "operator*" /\ rhs.halves = 2
               THEN /\ nodes' = nodes
                    /\ graphs' = graphs
                    /\ last'.b = x
               ELSE /\ Len(nodes') = n
                    /\ \A m \in DOMAIN nodes :
                         [nodes'[m] EXCEPT !.outs = nodes[m].outs] = nodes[m]
                    /\ nodes'[n].kind = (IF last'.op = "operator*" THEN "mul" ELSE "add")
                    /\ nodes'[n].inputs = <<x>>
                    /\ Len(nodes'[n].outs) = 1
                    /\ \E k \in DOMAIN nodes'[n].attrs :
                         nodes'[n].attrs[k] = <<"other", Scalar_toTensor(rhs)>>
                    /\ graphs'[x[1]].order = Append(graphs[x[1]].order, n)
                    /\ last'.b = <<x[1], n, 1>>
      ]_vars

\* 'x * 1.5' has created a mul node over x with the attribute other = 1.5
C26_Witness ==
    /\ last.op = "operator*"
    /\ last.args[1] = [isFloatingPoint |-> TRUE, halves |-> 3]
    /\ nodes[last.n].kind = "mul"
    /\ nodes[last.n].inputs = <<last.a>>
    /\ nodes[last.n].attrs = <<<<"other", Scalar_toTensor(last.args[1])>>>>
    /\ last.b = <<1, last.n, 1>>

\* 'x * 1.0' has returned x
C26_WitnessOne ==
    /\ last.op = "operator*"
    /\ last.args[1] = [isFloatingPoint |-> TRUE, halves |-> 2]
    /\ last.b = last.a

\* 'x + 1' has created an add node over x with the attributes alpha and other
C26_WitnessAdd ==
    /\ last.op = "operator+"
    /\ last.args[1] = [isFloatingPoint |-> FALSE, halves |-> 2]
    /\ nodes[last.n].kind = "add"
    /\ Len(nodes[last.n].attrs) = 2

\* C27: getOutputTrace never yields a null Value.  Whenever exit has resolved
\* a TracingState, every defined output that has an association with that
\* state is associated with a Value (not null), so that getOutputTrace
\* either fails for lack of an association or returns a Value of the graph.
C27_OutputTraceNonNull ==
    [][(last'.op = "exit" /\ last'.s # 0) =>
        \A j \in DOMAIN last'.args :
            (tvars[last'.args[j]].defined /\ last'.s \in StatesOf(World, last'.args[j])) =>
                RecordedValue(World, last'.s, last'.args[j]) # NULL
      ]_vars

\* exit was called on a Variable that wraps a registered buffer and that an
\* earlier operation consumed: its association holds no Value, getOutputTrace
\* returned null and exit ended without the no-dependence diagnostic
C27_Witness ==
    /\ last.op = "exit"
    /\ last.s # 0
    /\ ~last.ok
    /\ last.i = -1
    /\ \E j \in DOMAIN last.args :
        /\ tvars[last.args[j]].defined
        /\ last.s \in StatesOf(World, last.args[j])
        /\ RecordedValue(World, last.s, last.args[j]) = NULL
        /\ BufferFind(World, last.s, last.args[j]) # NULL

\* the number of elems of the list of v whose TracingState is s
EntriesOf(W, s, v) == Cardinality({k \in DOMAIN W.tvars[v].ts : W.tvars[v].ts[k].state = s})

\* the number of elems of the list of v whose TracingState is alive
LiveCount(W, v) == Len(LiveElems(W, W.tvars[v].ts))

\* C28: association uniqueness.  In every state reached by enter, recorded
\* operations, exit and the destruction of TracingStates, the list of every
\* Variable holds at most one elem per live TracingState; a lookup
\* getValueState(s, v, alloc) adds an elem exactly when alloc is set and the
\* list holds no elem of s, and getOutputTrace changes the number of live
\* elems of no Variable.
C28_AssociationUnique ==
    /\ \A v \in DOMAIN tvars : \A s \in AliveStates(World) : EntriesOf(World, s, v) <= 1
    /\ \A v \in DefinedVars(World) : \A s \in AliveStates(World) : \A alloc \in BOOLEAN :
        \A r \in {getValueState(World, s, v, alloc)} :
            /\ LiveCount(r.w, v) = LiveCount(World, v)
                                     + (IF alloc /\ EntriesOf(World, s, v) = 0 THEN 1 ELSE 0)
            /\ EntriesOf(r.w, s, v) <= 1
            /\ \A u \in DOMAIN tvars \ {v} : r.w.tvars[u] = tvars[u]
    /\ \A v \in DOMAIN tvars : \A s \in AliveStates(World) :
        \A r \in {getOutputTrace(World, s, v)} :
            \A u \in DOMAIN tvars : LiveCount(r.w, u) = LiveCount(World, u)

\* an exit has looked up, without allocation, a Variable whose list holds the
\* elems of two live TracingStates
C28_Witness ==
    /\ last.op = "exit"
    /\ last.ok
    /\ \E j \in DOMAIN last.args :
        /\ tvars[last.args[j]].defined
        /\ LiveCount(World, last.args[j]) >= 2
        /\ \A s \in AliveStates(World) : EntriesOf(World, s, last.args[j]) = 1

\* a recording has allocated an elem for an input that had none of the
\* recording state, next to the elem of another live TracingState
C28_WitnessAlloc ==
    /\ last.op = "record"
    /\ last.ok
    /\ \E j \in DOMAIN last.args :
        /\ tvars[last.args[j]].defined
        /\ LiveCount(World, last.args[j]) >= 2
        /\ RecordedValue(World, last.s, last.args[j]) # NULL

\* the kind names of ExportKinds that are not empty and begin with an
\* upper-case letter
UpperCaseKinds == {"CppOp", "PythonOp", "Expand", "Add", "Undefined"}

\* no node of graph g is a C++ custom op or a Python op, none has kind Expand,
\* and every kind name is non-empty and begins with an upper-case letter
Acceptable(W, g) ==
    \A k \in DOMAIN W.graphs[g].order :
        \E kind \in {W.nodes[W.graphs[g].order[k]].kind} :
            /\ kind \notin {"CppOp", "PythonOp"}
            /\ kind # "Expand"
            /\ kind # ""
            /\ kind \in UpperCaseKinds

\* C29: acceptance set of validateGraph.  A graph passes validation if and
\* only if none of its nodes is a C++ custom op or a Python op, none has kind
\* Expand, and every kind name is non-empty and begins with an upper-case
\* letter; a node of a lower-case kind is rejected for its kind, and a node of
\* the empty name for the empty name, not for its first character.  An
\* ExportGraph call fails in validation exactly on the graphs that are not
\* acceptable.
C29_AcceptanceSet ==
    /\ (validateGraph(World, 1) = {Validated}) <=> Acceptable(World, 1)
    /\ \A r \in validateGraph(World, 1) : (r.status = "ok") <=> Acceptable(World, 1)
    /\ \A n \in DOMAIN nodes :
        /\ nodes[n].kind = "add" => Rejection(World, n) = "kind"
        /\ nodes[n].kind = "" => Rejection(World, n) = "empty"
    /\ last.op = "ExportGraph" =>
        /\ last.ok => Acceptable(World, 1)
        /\ (last.a.reason = "none") <=> Acceptable(World, 1)

\* ExportGraph has validated and exported a graph of an ONNX-kind node and an
\* Undefined node
C29_Witness ==
    /\ last.op = "ExportGraph"
    /\ last.ok
    /\ Len(graphs[1].order) = 2
    /\ {nodes[graphs[1].order[k]].kind : k \in DOMAIN graphs[1].order} = {"Add", "Undefined"}

\* ExportGraph has rejected a graph whose only unacceptable node is of a
\* lower-case kind
C29_WitnessLowerCase ==
    /\ last.op = "ExportGraph"
    /\ ~last.ok
    /\ last.a.reason = "kind"
    /\ Len(graphs[1].order) = 2
    /\ nodes[graphs[1].order[1]].kind = "Add"
    /\ nodes[graphs[1].order[2]].kind = "add"

\* ExportGraph has rejected a node of the empty kind name for the empty name
C29_WitnessEmpty ==
    /\ last.op = "ExportGraph"
    /\ ~last.ok
    /\ last.a.reason = "empty"
    /\ nodes[last.a.node].kind = ""

\* the last call ToONNX made for node n
LastCallOf(calls, n) ==
    calls[CHOOSE k \in DOMAIN calls :
              calls[k][1] = n /\ \A j \in (k + 1)..Len(calls) : calls[j][1] # n]

\* the Value of the new graph ng that stands for the Value v of the old
\* graph: the input of the same position, or what the last call made for the
\* producer of v returned for that output
NewValueOf(calls, ng, v) ==
    IF v[2] = 0 THEN <<ng, 0, v[3]>> ELSE LastCallOf(calls, v[2])[3][v[3]]

\* C30: ToONNX replaces the graph of the TracingState atomically.  When
\* ToONNX fails, the graph and the buffer map of the TracingState, and the
\* graph itself, are what they were before the call.  When it succeeds, the
\* TracingState holds a new graph with as many inputs and outputs as the old
\* one, its outputs the Values the old outputs were mapped to, in the same
\* order, its stage counter the old one, and the buffer map holds the same
\* tensors in the same order, each with the Value its old Value was mapped to.
C30_AtomicReplace ==
    [][last'.op = "ToONNX" =>
        IF ~last'.ok
        THEN /\ tstates' = tstates
             /\ graphs' = graphs
             /\ nodes' = nodes
        ELSE \E g \in {tstates[1].graph} : \E ng \in {tstates'[1].graph} :
             /\ last'.i = g
             /\ ng = Len(graphs) + 1
             /\ Len(graphs') = ng
             /\ Len(graphs'[ng].ins) = Len(graphs[g].ins)
             /\ Len(graphs'[ng].outputs) = Len(graphs[g].outputs)
             /\ \A k \in DOMAIN graphs[g].outputs :
                 /\ graphs'[ng].outputs[k] # NULL
                 /\ graphs'[ng].outputs[k][1] = ng
                 /\ graphs'[ng].outputs[k] = NewValueOf(last'.a, ng, graphs[g].outputs[k])
             /\ graphs'[ng].stage = graphs[g].stage
             /\ Len(tstates'[1].buffer_map) = Len(tstates[1].buffer_map)
             /\ \A k \in DOMAIN tstates[1].buffer_map :
                 /\ tstates'[1].buffer_map[k][1] = tstates[1].buffer_map[k][1]
                 /\ tstates'[1].buffer_map[k][2]
                        = NewValueOf(last'.a, ng, tstates[1].buffer_map[k][2])
      ]_vars

\* ToONNX failed on the arity of a hook's answer after it had converted a
\* node, and the TracingState still holds its graph of two nodes and one
\* output
C30_Witness ==
    /\ last.op = "ToONNX"
    /\ ~last.ok
    /\ last.args[1][1] = "symbolic produced an incorrect number of outputs"
    /\ Len(last.a) >= 2
    /\ tstates[1].graph = 1
    /\ Len(graphs) = 1
    /\ Len(graphs[1].order) = 2
    /\ graphs[1].outputs # <<>>

\* ToONNX succeeded on a graph of stage 1 with a buffer input, a node and two
\* outputs
C30_WitnessSuccess ==
    /\ last.op = "ToONNX"
    /\ last.ok
    /\ tstates[1].graph = 2
    /\ graphs[2].stage = 1
    /\ tstates[1].buffer_map # <<>>
    /\ graphs[1].order # <<>>
    /\ Len(graphs[2].outputs) = 2
    /\ graphs[2].outputs[1][2] # graphs[2].outputs[2][2]

\* ToONNX failed on an expired TracingState
C30_WitnessExpired ==
    /\ last.op = "ToONNX"
    /\ ~last.ok
    /\ last.args[1] = <<"tracing state is expired">>
    /\ tstates[1].graph = 0

\* ToONNX failed on a hook that answered none for an output still in use
C30_WitnessNoneUsed ==
    /\ last.op = "ToONNX"
    /\ ~last.ok
    /\ last.args[1] = <<"none for a used output">>
    /\ tstates[1].graph = 1

====
